---- MODULE Spec2Model ----
(***************************************************************************)
(* Block-semantic editing engine of vue-md: the node tree, the selection,  *)
(* the surface adapter (DOMOperations), the block model                    *)
(* (MarkdownBlockModel) and the key handlers of MarkdownBlockEditor2.      *)
(*                                                                         *)
(* A node is a record [tag, txt, ch]: a text node has tag "#text" and its  *)
(* characters in txt; an element has its child nodes in ch.  An element is *)
(* referred to by its path, the sequence of child indices from the editor  *)
(* element (path << >>).  A selection boundary is (path, offset) as in the *)
(* DOM: an offset into the characters of a text node or into the children  *)
(* of an element.                                                          *)
(***************************************************************************)
EXTENDS Integers, Sequences, FiniteSets, TLC

VARIABLES doc, sel, pre, last, nkeys, comp, app

vars == <<doc, sel, pre, last, nkeys, comp, app>>

\* ---------------------------------------------------------------- bounds
MaxKeys == 2

\* ------------------------------------------------------- node tree basics
T(s) == [tag |-> "#text", txt |-> s, ch |-> << >>]

El(t, c) == [tag |-> t, txt |-> << >>, ch |-> c]

Br == El("BR", << >>)

NoPath == <<0>>

BLOCK_TAGS == {"P", "H1", "H2", "H3", "H4", "H5", "H6", "LI"}

CONTAINER_TAGS_WithItem == {"BLOCKQUOTE", "OL", "UL", "PRE", "LI"}

CONTAINER_TAGS == {"BLOCKQUOTE", "OL", "UL", "PRE"}

INLINE_TAGS == {"STRONG", "EM", "B", "I", "CODE", "U", "S"}

\* characters removed by String.prototype.trim
TrimChars == {" ", "\n", "nbsp"}

Last(p) == p[Len(p)]

RECURSIVE NodeAt(_, _)
NodeAt(n, p) == IF p = << >> THEN n ELSE NodeAt(n.ch[Head(p)], Tail(p))

TagOf(d, p) == IF p = NoPath THEN "" ELSE NodeAt(d, p).tag

IsText(d, p) == TagOf(d, p) = "#text"

\* replace the node at the non-empty path p by the sequence of nodes r
RECURSIVE ReplaceAt(_, _, _)
ReplaceAt(n, p, r) ==
  IF Len(p) = 1
    THEN [n EXCEPT !.ch = SubSeq(n.ch, 1, p[1] - 1) \o r
                           \o SubSeq(n.ch, p[1] + 1, Len(n.ch))]
    ELSE [n EXCEPT !.ch[Head(p)] = ReplaceAt(n.ch[Head(p)], Tail(p), r)]

SetNode(n, p, m) == IF p = << >> THEN m ELSE ReplaceAt(n, p, <<m>>)

RECURSIVE TextContent(_)
RECURSIVE TextOfSeq(_)
TextContent(n) == IF n.tag = "#text" THEN n.txt ELSE TextOfSeq(n.ch)

TextOfSeq(s) ==
  IF s = << >> THEN << >> ELSE TextContent(Head(s)) \o TextOfSeq(Tail(s))

\* paths of the text nodes below the node at path base, in document order
RECURSIVE TextPaths(_, _)
RECURSIVE TextPathsKids(_, _, _)
TextPaths(n, base) ==
  IF n.tag = "#text" THEN <<base>> ELSE TextPathsKids(n, base, 1)

TextPathsKids(n, base, i) ==
  IF i > Len(n.ch) THEN << >>
  ELSE TextPaths(n.ch[i], Append(base, i)) \o TextPathsKids(n, base, i + 1)

\* paths of all elements of the tree (the editor element excluded)
RECURSIVE ElemPaths(_, _)
RECURSIVE ElemPathsKids(_, _, _)
ElemPaths(n, base) ==
  IF n.tag = "#text" THEN {}
  ELSE (IF base = << >> THEN {} ELSE {base}) \cup ElemPathsKids(n, base, 1)

ElemPathsKids(n, base, i) ==
  IF i > Len(n.ch) THEN {}
  ELSE ElemPaths(n.ch[i], Append(base, i)) \cup ElemPathsKids(n, base, i + 1)

IsTrimEmpty(s) == \A i \in 1..Len(s) : s[i] \in TrimChars

\* ------------------------------------------------------------- selection
NoSel == [rc |-> 0, sc |-> NoPath, so |-> 0, ec |-> NoPath, eo |-> 0]

Caret(p, o) == [rc |-> 1, sc |-> p, so |-> o, ec |-> p, eo |-> o]

Range(p, o, q, r) == [rc |-> 1, sc |-> p, so |-> o, ec |-> q, eo |-> r]

\* an editing state threaded through a handler: the tree, the selection, the
\* structural edit commands issued so far and the number of direct splices
St(d, s) == [doc |-> d, sel |-> s, cmds |-> << >>, splices |-> 0]

\* ================================================== DOMOperations (reads)
getTextContent(d, p) == TextContent(NodeAt(d, p))

getParentElement(d, p) ==
  IF p = NoPath \/ p = << >> THEN NoPath ELSE SubSeq(p, 1, Len(p) - 1)

ElemIdx(d, par) ==
  {i \in 1..Len(NodeAt(d, par).ch) : NodeAt(d, par).ch[i].tag # "#text"}

MaxOf(S) == CHOOSE x \in S : \A y \in S : y <= x

MinOf(S) == CHOOSE x \in S : \A y \in S : x <= y

getPreviousSibling(d, p) ==
  IF p = NoPath \/ p = << >> THEN NoPath
  ELSE LET par == getParentElement(d, p)
           S == {i \in ElemIdx(d, par) : i < Last(p)}
       IN IF S = {} THEN NoPath ELSE Append(par, MaxOf(S))

getNextSibling(d, p) ==
  IF p = NoPath \/ p = << >> THEN NoPath
  ELSE LET par == getParentElement(d, p)
           S == {i \in ElemIdx(d, par) : i > Last(p)}
       IN IF S = {} THEN NoPath ELSE Append(par, MinOf(S))

getFirstChild(d, p) ==
  IF ElemIdx(d, p) = {} THEN NoPath ELSE Append(p, MinOf(ElemIdx(d, p)))

getLastChild(d, p) ==
  IF ElemIdx(d, p) = {} THEN NoPath ELSE Append(p, MaxOf(ElemIdx(d, p)))

getTagName(d, p) == TagOf(d, p)

hasChildren(d, p) == p # NoPath /\ ElemIdx(d, p) # {}

\* innerHTML === '<br>'
InnerIsBr(d, p) == NodeAt(d, p).ch = <<Br>>

\* range.commonAncestorContainer: the deepest node holding both boundaries
CommonPrefix(p, q) ==
  LET n == IF Len(p) < Len(q) THEN Len(p) ELSE Len(q)
      k == MaxOf({i \in 0..n : SubSeq(p, 1, i) = SubSeq(q, 1, i)})
  IN SubSeq(p, 1, k)

getCursorContext(s) ==
  [ok |-> s.rc > 0,
   collapsed |-> s.sc = s.ec /\ s.so = s.eo,
   container |-> s.sc, offset |-> s.so,
   common |-> CommonPrefix(s.sc, s.ec)]

\* ====================================== DOMOperations (caret placement)
setCaretAtStart(s, el) == [s EXCEPT !.sel = Caret(el, 0)]

setCaretAfter(s, node) ==
  [s EXCEPT !.sel = Caret(getParentElement(s.doc, node), Last(node))]

selectNode(s, node) ==
  [s EXCEPT !.sel = Range(getParentElement(s.doc, node), Last(node) - 1,
                          getParentElement(s.doc, node), Last(node))]

\* the tree walk of setCaretPosition: the first text node below el in which
\* the running length reaches position, or no node at all
RECURSIVE WalkToPos(_, _, _, _, _)
WalkToPos(d, tps, i, cur, position) ==
  IF i > Len(tps) THEN [found |-> FALSE, node |-> NoPath, off |-> 0]
  ELSE LET len == Len(NodeAt(d, tps[i]).txt)
       IN IF cur + len >= position
            THEN [found |-> TRUE, node |-> tps[i], off |-> position - cur]
            ELSE WalkToPos(d, tps, i + 1, cur + len, position)

setCaretPosition(s, el, position) ==
  LET w == WalkToPos(s.doc, TextPaths(NodeAt(s.doc, el), el), 1, 0, position)
  IN IF w.found THEN [s EXCEPT !.sel = Caret(w.node, w.off)] ELSE s

\* ======================= host structural edit commands (document.execCommand)
\* nearest ancestor-or-self of p, below the editor element, with a tag in Tags
RECURSIVE UpTo(_, _, _)
UpTo(d, p, Tags) ==
  IF p = NoPath \/ p = << >> THEN NoPath
  ELSE IF TagOf(d, p) \in Tags THEN p
  ELSE UpTo(d, getParentElement(d, p), Tags)

\* containers that the host's outdent command lifts a block out of
OutdentTags == {"BLOCKQUOTE", "OL", "UL"}

\* tags the host's formatBlock command re-tags
FormatTags == BLOCK_TAGS \cup {"DIV"}

\* the two halves of node n cut at offset o of the node at relative path rel
RECURSIVE SplitL(_, _, _)
SplitL(n, rel, o) ==
  IF rel = << >>
    THEN IF n.tag = "#text" THEN T(SubSeq(n.txt, 1, o))
         ELSE El(n.tag, SubSeq(n.ch, 1, o))
    ELSE El(n.tag, SubSeq(n.ch, 1, Head(rel) - 1)
                   \o <<SplitL(n.ch[Head(rel)], Tail(rel), o)>>)

RECURSIVE SplitR(_, _, _)
SplitR(n, rel, o) ==
  IF rel = << >>
    THEN IF n.tag = "#text" THEN T(SubSeq(n.txt, o + 1, Len(n.txt)))
         ELSE El(n.tag, SubSeq(n.ch, o + 1, Len(n.ch)))
    ELSE El(n.tag, <<SplitR(n.ch[Head(rel)], Tail(rel), o)>>
                   \o SubSeq(n.ch, Head(rel) + 1, Len(n.ch)))

\* drop the text nodes and inline elements a cut left without content
RECURSIVE Prune(_)
RECURSIVE PruneSeq(_)
Prune(n) ==
  IF n.tag = "#text" THEN (IF n.txt = << >> THEN << >> ELSE <<n>>)
  ELSE IF n.tag = "BR" THEN <<n>>
  ELSE LET c == PruneSeq(n.ch)
       IN IF c = << >> THEN << >> ELSE <<El(n.tag, c)>>

PruneSeq(s) == IF s = << >> THEN << >> ELSE Prune(Head(s)) \o PruneSeq(Tail(s))

HalfOf(n) == IF TextContent(n) = << >> THEN << >> ELSE Prune(n)

executeCommand(s, command) == [s EXCEPT !.cmds = Append(@, command)]

\* the host moves a caret at a child boundary of a container, or of the
\* editor, into the neighbouring block before it inserts inline content
RECURSIVE CanonCaret(_, _, _)
CanonCaret(d, c, o) ==
  LET n == NodeAt(d, c)
  IN IF n.tag = "#text" \/ n.tag \in BLOCK_TAGS \cup INLINE_TAGS \/ n.ch = << >>
       THEN Caret(c, o)
     ELSE IF o + 1 <= Len(n.ch) THEN CanonCaret(d, Append(c, o + 1), 0)
     ELSE LET m == n.ch[o]
          IN CanonCaret(d, Append(c, o),
                        IF m.tag = "#text" THEN Len(m.txt) ELSE Len(m.ch))

\* execCommand('insertText'): the characters enter the text node of the caret;
\* at an element boundary they join the adjacent text node or take the place
\* of the placeholder line break
insertText(s0, text) ==
  LET s == executeCommand(s0, "insertText")
      d == s.doc
      cc == CanonCaret(d, s.sel.sc, s.sel.so)
      c == cc.sc
      o == cc.so
      n == NodeAt(d, c)
  IN IF s.sel.rc = 0 THEN s
     ELSE IF n.tag = "#text"
       THEN [s EXCEPT !.doc = SetNode(d, c, T(SubSeq(n.txt, 1, o) \o text
                                  \o SubSeq(n.txt, o + 1, Len(n.txt)))),
                      !.sel = Caret(c, o + Len(text))]
     ELSE IF n.ch = <<Br>>
       THEN [s EXCEPT !.doc = SetNode(d, c, El(n.tag, <<T(text)>>)),
                      !.sel = Caret(Append(c, 1), Len(text))]
     ELSE IF o + 1 <= Len(n.ch) /\ n.ch[o + 1].tag = "#text"
       THEN [s EXCEPT !.doc = SetNode(d, Append(c, o + 1),
                                      T(text \o n.ch[o + 1].txt)),
                      !.sel = Caret(Append(c, o + 1), Len(text))]
     ELSE IF o >= 1 /\ n.ch[o].tag = "#text"
       THEN [s EXCEPT !.doc = SetNode(d, Append(c, o), T(n.ch[o].txt \o text)),
                      !.sel = Caret(Append(c, o), Len(n.ch[o].txt) + Len(text))]
     ELSE [s EXCEPT !.doc = SetNode(d, c, El(n.tag, SubSeq(n.ch, 1, o)
                              \o <<T(text)>> \o SubSeq(n.ch, o + 1, Len(n.ch)))),
                    !.sel = Caret(Append(c, o + 1), Len(text))]

\* execCommand('delete') on the ranges the editor selects: a range inside one
\* element removes the selected children; a range from inside one root-level
\* container to inside a later one removes what lies between and joins the
\* two containers when they are of the same tag
deleteSelection(s0) ==
  LET s == executeCommand(s0, "delete")
      d == s.doc
      r == s.sel
  IN IF r.rc = 0 \/ (r.sc = r.ec /\ r.so = r.eo) THEN s
     ELSE IF r.sc = r.ec /\ ~IsText(d, r.sc)
       THEN LET n == NodeAt(d, r.sc)
            IN [s EXCEPT !.doc = SetNode(d, r.sc, El(n.tag, SubSeq(n.ch, 1, r.so)
                                   \o SubSeq(n.ch, r.eo + 1, Len(n.ch)))),
                         !.sel = Caret(r.sc, r.so)]
     ELSE IF Len(r.sc) = 1 /\ Len(r.ec) = 1 /\ r.sc[1] < r.ec[1]
             /\ r.sc # NoPath /\ ~IsText(d, r.sc) /\ ~IsText(d, r.ec)
       THEN LET A == d.ch[r.sc[1]]
                B == d.ch[r.ec[1]]
                keepA == SubSeq(A.ch, 1, r.so)
                keepB == SubSeq(B.ch, r.eo + 1, Len(B.ch))
                joined == IF A.tag = B.tag
                            THEN (IF keepA \o keepB = << >> THEN << >>
                                  ELSE <<El(A.tag, keepA \o keepB)>>)
                            ELSE (IF keepA = << >> THEN << >>
                                  ELSE <<El(A.tag, keepA)>>)
                                 \o (IF keepB = << >> THEN << >>
                                     ELSE <<El(B.tag, keepB)>>)
            IN [s EXCEPT !.doc = El(d.tag, SubSeq(d.ch, 1, r.sc[1] - 1) \o joined
                                     \o SubSeq(d.ch, r.ec[1] + 1, Len(d.ch))),
                         !.sel = Caret(r.sc, r.so)]
     ELSE s

\* execCommand('insertParagraph') with the caret at a child boundary of a
\* container or of the editor: a new empty paragraph after that boundary
insertParagraph(s0) ==
  LET s == executeCommand(s0, "insertParagraph")
      d == s.doc
      c == s.sel.sc
      o == s.sel.so
      n == NodeAt(d, c)
  IN IF s.sel.rc = 0 \/ n.tag = "#text" \/ n.tag \in BLOCK_TAGS THEN s
     ELSE [s EXCEPT !.doc = SetNode(d, c, El(n.tag, SubSeq(n.ch, 1, o)
                     \o <<El("P", <<Br>>)>> \o SubSeq(n.ch, o + 1, Len(n.ch)))),
                    !.sel = Caret(Append(c, o + 1), 0)]

\* execCommand('insertHTML'): inline content is inserted as text; block
\* content is inserted at a child boundary of a container, or cuts the block
\* of the caret in two (a half without text disappears, so an empty block is
\* replaced by the inserted content)
insertHTML(s0, nodes) ==
  LET s == executeCommand(s0, "insertHTML")
      d == s.doc
      c == s.sel.sc
      o == s.sel.so
  IN IF s.sel.rc = 0 THEN s
     ELSE IF \A i \in 1..Len(nodes) : nodes[i].tag = "#text"
       THEN [insertText(s, TextOfSeq(nodes)) EXCEPT !.cmds = s.cmds]
     ELSE IF c = << >> \/ TagOf(d, c) \in CONTAINER_TAGS
       THEN LET n == NodeAt(d, c)
            IN [s EXCEPT !.doc = SetNode(d, c, El(n.tag, SubSeq(n.ch, 1, o)
                               \o nodes \o SubSeq(n.ch, o + 1, Len(n.ch)))),
                         !.sel = Caret(Append(c, o + Len(nodes)), 0)]
     ELSE LET blk == UpTo(d, c, BLOCK_TAGS)
              b == IF blk # NoPath THEN blk ELSE <<c[1]>>
              rel == SubSeq(c, Len(b) + 1, Len(c))
              left == HalfOf(SplitL(NodeAt(d, b), rel, o))
              right == HalfOf(SplitR(NodeAt(d, b), rel, o))
              par == getParentElement(d, b)
          IN [s EXCEPT !.doc = ReplaceAt(d, b, left \o nodes \o right),
                       !.sel = Caret(Append(par, Last(b) - 1 + Len(left)
                                                 + Len(nodes)), 0)]

\* execCommand('outdent'): the block of the caret leaves its blockquote or
\* list; the siblings before and after it stay in containers of their own and
\* a container left without children disappears; a list item becomes a plain
\* block
outdent(s0) ==
  LET s == executeCommand(s0, "outdent")
      d == s.doc
      c == s.sel.sc
      b == UpTo(d, c, BLOCK_TAGS)
      par == getParentElement(d, b)
  IN IF s.sel.rc = 0 \/ b = NoPath \/ TagOf(d, par) \notin OutdentTags THEN s
     ELSE LET C == NodeAt(d, par)
              i == Last(b)
              before == SubSeq(C.ch, 1, i - 1)
              after == SubSeq(C.ch, i + 1, Len(C.ch))
              blk == IF C.ch[i].tag = "LI" THEN El("DIV", C.ch[i].ch)
                     ELSE C.ch[i]
              nb == Append(getParentElement(d, par),
                           Last(par) + (IF before = << >> THEN 0 ELSE 1))
          IN [s EXCEPT !.doc = ReplaceAt(d, par,
                         (IF before = << >> THEN << >> ELSE <<El(C.tag, before)>>)
                         \o <<blk>>
                         \o (IF after = << >> THEN << >> ELSE <<El(C.tag, after)>>)),
                       !.sel = Caret(nb \o SubSeq(c, Len(b) + 1, Len(c)), s.sel.so)]

formatBlock_KeepTag(s0, tag) == executeCommand(s0, "formatBlock")

\* execCommand('formatBlock', tag): the block of the caret gets the tag
formatBlock(s0, tag) ==
  LET s == executeCommand(s0, "formatBlock")
      d == s.doc
      b == UpTo(d, s.sel.sc, FormatTags)
  IN IF s.sel.rc = 0 \/ b = NoPath THEN s
     ELSE [s EXCEPT !.doc = SetNode(d, b, El(tag, NodeAt(d, b).ch))]

\* ============================== DOMOperations (absolute caret position)
\* the length of the text between the start of the editor and the start of
\* the selection; 0 without a selection
getAbsoluteCaretPosition(s) ==
  IF s.sel.rc = 0 THEN 0
  ELSE Len(TextContent(SplitL(s.doc, s.sel.sc, s.sel.so)))

\* the walk of setCaretPosition over the whole editor; ok is the return value
setAbsoluteCaretPosition(s, position) ==
  LET w == WalkToPos(s.doc, TextPaths(s.doc, << >>), 1, 0, position)
  IN IF w.found THEN [ok |-> TRUE, sel |-> Caret(w.node, w.off)]
     ELSE [ok |-> FALSE, sel |-> s.sel]

\* ===================================================== MarkdownBlockModel
isBlockElement(d, p) == p # NoPath /\ TagOf(d, p) \in BLOCK_TAGS

isContainerElement(d, p) == p # NoPath /\ TagOf(d, p) \in CONTAINER_TAGS

\* A SPAN keeps the declarations of its style attribute in txt, one string
\* per declaration; a SPAN without style attribute has none.
Span(style, c) == [tag |-> "SPAN", txt |-> style, ch |-> c]

\* the entries of inlineStyles and of blockStyles found in a style string
InlineStyles ==
  {"font-weight: bold", "font-weight: 600", "font-weight: 700",
   "font-style: italic", "text-decoration: underline",
   "text-decoration: line-through"}

BlockStyles ==
  {"font-size", "font-weight: 600", "font-weight: bold", "font-weight: 700",
   "margin", "padding", "border", "color: rgb(106, 115, 125)", "line-height"}

hasInlineStyles(styleString) ==
  \E i \in 1..Len(styleString) : styleString[i] \in InlineStyles

isInlineStyleElement(d, p) ==
  /\ p # NoPath
  /\ \/ TagOf(d, p) \in INLINE_TAGS
     \/ /\ TagOf(d, p) = "SPAN"
        /\ NodeAt(d, p).txt # << >>
        /\ hasInlineStyles(NodeAt(d, p).txt)

getBlockType(d, p) ==
  IF p = NoPath THEN "unknown"
  ELSE IF TagOf(d, p) \in {"H1", "H2", "H3", "H4", "H5", "H6"} THEN "heading"
  ELSE IF TagOf(d, p) = "BLOCKQUOTE" THEN "blockquote"
  ELSE IF TagOf(d, p) = "PRE" THEN "codeblock"
  ELSE IF TagOf(d, p) = "LI" THEN "listitem"
  ELSE IF TagOf(d, p) = "P" THEN "paragraph"
  ELSE "unknown"

isBlockEmpty(d, p) ==
  p = NoPath \/ IsTrimEmpty(getTextContent(d, p)) \/ InnerIsBr(d, p)

RECURSIVE PreviousBlockFrom(_, _)
PreviousBlockFrom(d, prev) ==
  IF prev = NoPath THEN NoPath
  ELSE IF isBlockElement(d, prev) THEN prev
  ELSE IF isContainerElement(d, prev)
          /\ isBlockElement(d, getLastChild(d, prev))
    THEN getLastChild(d, prev)
  ELSE PreviousBlockFrom(d, getPreviousSibling(d, prev))

getPreviousBlock(d, block) == PreviousBlockFrom(d, getPreviousSibling(d, block))

RECURSIVE NextBlockFrom(_, _)
NextBlockFrom(d, next) ==
  IF next = NoPath THEN NoPath
  ELSE IF isBlockElement(d, next) THEN next
  ELSE IF isContainerElement(d, next)
          /\ isBlockElement(d, getFirstChild(d, next))
    THEN getFirstChild(d, next)
  ELSE NextBlockFrom(d, getNextSibling(d, next))

getNextBlock(d, block) == NextBlockFrom(d, getNextSibling(d, block))

\* the element a walk-up starts from: the parent of a text node, else the node
StartElement(d, container) ==
  IF IsText(d, container) THEN getParentElement(d, container) ELSE container

findBlockElement(d, container) == UpTo(d, StartElement(d, container), BLOCK_TAGS)

\* the text of blockElement before the selection point, before trimming
RECURSIVE TextBeforeWalk(_, _, _, _, _)
TextBeforeWalk(d, tps, i, container, offset) ==
  IF i > Len(tps) THEN << >>
  ELSE IF tps[i] = container THEN SubSeq(NodeAt(d, tps[i]).txt, 1, offset)
  ELSE NodeAt(d, tps[i]).txt \o TextBeforeWalk(d, tps, i + 1, container, offset)

\* TRUE iff getTextBeforeCursor(...) === ''
TextBeforeCursorIsEmpty(d, blockElement, container, offset) ==
  IF ~IsText(d, container) /\ offset = 0 THEN TRUE
  ELSE IsTrimEmpty(TextBeforeWalk(d,
         TextPaths(NodeAt(d, blockElement), blockElement), 1, container, offset))

isAtBlockStart(d, container, offset) ==
  IF offset # 0 /\ IsText(d, container)
     /\ \E i \in 1..offset : NodeAt(d, container).txt[i] \notin {" ", "\n"}
    THEN [atStart |-> FALSE, blockElement |-> NoPath]
  ELSE LET b == findBlockElement(d, container)
       IN IF b = NoPath THEN [atStart |-> FALSE, blockElement |-> NoPath]
          ELSE [atStart |-> TextBeforeCursorIsEmpty(d, b, container, offset),
                blockElement |-> b]

\* position of the caret in the text of element, as isAtBlockEnd counts it
RECURSIVE EndWalk(_, _, _, _, _, _, _)
EndWalk(d, tps, i, container, offset, total, cur) ==
  IF i > Len(tps) THEN cur = total
  ELSE EndWalk(d, tps, i + 1, container, offset,
               total + Len(NodeAt(d, tps[i]).txt),
               IF tps[i] = container THEN total + offset ELSE cur)

isAtBlockEnd_Always(d, s, element) ==
  LET ctx == getCursorContext(s)
  IN ctx.ok /\ ctx.collapsed

isAtBlockEnd(d, s, element) ==
  LET ctx == getCursorContext(s)
  IN ctx.ok /\ ctx.collapsed
     /\ EndWalk(d, TextPaths(NodeAt(d, element), element), 1,
                ctx.container, ctx.offset, 0, 0)

\* the walk-up of isAtEndOfInlineElement from the parent of the caret's text
RECURSIVE InlineWalk(_, _, _)
InlineWalk(d, parent, container) ==
  IF parent = NoPath \/ parent = << >> THEN FALSE
  ELSE IF isInlineStyleElement(d, parent)
    THEN LET tps == TextPaths(NodeAt(d, parent), parent)
         IN tps # << >> /\ tps[Len(tps)] = container
  ELSE IF isBlockElement(d, parent) THEN FALSE
  ELSE InlineWalk(d, getParentElement(d, parent), container)

isAtEndOfInlineElement(d, s) ==
  LET ctx == getCursorContext(s)
  IN ctx.ok /\ ctx.collapsed /\ IsText(d, ctx.container)
     /\ ctx.offset = Len(NodeAt(d, ctx.container).txt)
     /\ InlineWalk(d, getParentElement(d, ctx.container), ctx.container)

isBlockLevelStyling_BlockStyleOnly(styleString) ==
  /\ styleString # << >>
  /\ \E i \in 1..Len(styleString) : styleString[i] \in BlockStyles

isBlockLevelStyling(styleString) ==
  /\ styleString # << >>
  /\ \E i \in 1..Len(styleString) : styleString[i] \in BlockStyles
  /\ ~hasInlineStyles(styleString)

\* the children of a copy of the element, every span[style] with block-level
\* styling replaced by its own children
RECURSIVE UnwrapSpans(_)
UnwrapSpans(q) ==
  IF q = << >> THEN << >>
  ELSE LET n == Head(q)
       IN (IF n.tag = "#text" THEN <<n>>
           ELSE IF n.tag = "SPAN" /\ isBlockLevelStyling(n.txt)
             THEN UnwrapSpans(n.ch)
           ELSE <<[n EXCEPT !.ch = UnwrapSpans(n.ch)]>>)
          \o UnwrapSpans(Tail(q))

extractInlineContent(n) == UnwrapSpans(n.ch)

extractTextContent(nodes) == TextOfSeq(nodes)

findEmptyBlock_AnyEmpty(d, container) ==
  LET foundBlock == findBlockElement(d, container)
      parent == getParentElement(d, foundBlock)
      containerElement == IF isContainerElement(d, parent) THEN parent ELSE NoPath
  IN IF foundBlock # NoPath /\ isBlockEmpty(d, foundBlock)
       THEN [found |-> TRUE, block |-> foundBlock, container |-> containerElement]
       ELSE [found |-> FALSE, block |-> NoPath, container |-> NoPath]

findEmptyBlock(d, container) ==
  LET foundBlock == findBlockElement(d, container)
      parent == getParentElement(d, foundBlock)
      containerElement == IF isContainerElement(d, parent) THEN parent ELSE NoPath
  IN IF foundBlock # NoPath /\ isBlockEmpty(d, foundBlock)
        /\ (getBlockType(d, foundBlock) # "paragraph" \/ containerElement # NoPath)
       THEN [found |-> TRUE, block |-> foundBlock, container |-> containerElement]
       ELSE [found |-> FALSE, block |-> NoPath, container |-> NoPath]

\* the walk-up of findBlockInContainer: it goes on past a block whose parent
\* is no container and keeps the first block it met
RECURSIVE BlockInContainerWalk(_, _, _)
BlockInContainerWalk(d, cur, foundBlock) ==
  IF cur = NoPath \/ cur = << >>
    THEN [found |-> FALSE, block |-> NoPath, container |-> NoPath]
  ELSE IF isBlockElement(d, cur)
          /\ isContainerElement(d, getParentElement(d, cur))
    THEN [found |-> TRUE,
          block |-> IF foundBlock = NoPath THEN cur ELSE foundBlock,
          container |-> getParentElement(d, cur)]
  ELSE BlockInContainerWalk(d, getParentElement(d, cur),
         IF isBlockElement(d, cur) /\ foundBlock = NoPath THEN cur ELSE foundBlock)

findBlockInContainer(d, container) ==
  BlockInContainerWalk(d, StartElement(d, container), NoPath)

\* =================================================== MarkdownBlockEditor2
\* what a handler hands back: the editing state it leaves, its return value,
\* the branch that produced it, and whether it ended in an exception
Done(s, handled, rule) ==
  [doc |-> s.doc, sel |-> s.sel, cmds |-> s.cmds, splices |-> s.splices,
   handled |-> handled, rule |-> rule, threw |-> FALSE]

Threw(s, rule) ==
  [doc |-> s.doc, sel |-> s.sel, cmds |-> s.cmds, splices |-> s.splices,
   handled |-> FALSE, rule |-> rule, threw |-> TRUE]

convertBlockToParagraph_NoOutdent(s, blockElement) ==
  formatBlock(setCaretAtStart(s, blockElement), "P")

convertBlockToParagraph(s, blockElement) ==
  formatBlock(outdent(setCaretAtStart(s, blockElement)), "P")

mergeBlocks(s, targetBlock, sourceBlock) ==
  LET targetPosition == Len(getTextContent(s.doc, targetBlock))
      sourceContent ==
        extractTextContent(extractInlineContent(NodeAt(s.doc, sourceBlock)))
      s1 == setCaretPosition(s, targetBlock, targetPosition)
      s2 == IF ~IsTrimEmpty(sourceContent) THEN insertText(s1, sourceContent)
            ELSE s1
      s3 == deleteSelection(selectNode(s2, sourceBlock))
  IN setCaretPosition(s3, targetBlock, targetPosition)

\* prevSibling.appendChild(firstElementChild of nextSibling), repeated until
\* nextSibling has no element child: a direct splice of the live tree
MoveChildren(s, prevSibling, nextSibling) ==
  LET P == NodeAt(s.doc, prevSibling)
      N == NodeAt(s.doc, nextSibling)
      moved == SelectSeq(N.ch, LAMBDA c : c.tag # "#text")
      rest == SelectSeq(N.ch, LAMBDA c : c.tag = "#text")
      d1 == SetNode(s.doc, prevSibling, El(P.tag, P.ch \o moved))
  IN [s EXCEPT !.doc = SetNode(d1, nextSibling, El(N.tag, rest)),
               !.splices = @ + Len(moved)]

mergeAdjacentContainers_KeepNext(s, current) ==
  LET d == s.doc
      prevSibling == getPreviousSibling(d, current)
      nextSibling == getNextSibling(d, current)
  IN IF getTagName(d, current) # "P"
        \/ isContainerElement(d, getParentElement(d, current))
        \/ ~isBlockEmpty(d, current)
       THEN s
     ELSE IF prevSibling # NoPath /\ nextSibling # NoPath
             /\ isContainerElement(d, prevSibling)
             /\ isContainerElement(d, nextSibling)
             /\ getTagName(d, prevSibling) = getTagName(d, nextSibling)
       THEN deleteSelection(selectNode(MoveChildren(s, prevSibling, nextSibling),
                                       current))
     ELSE s

mergeAdjacentContainers_CopyChildren(s, current) ==
  LET d == s.doc
      prevSibling == getPreviousSibling(d, current)
      nextSibling == getNextSibling(d, current)
  IN IF getTagName(d, current) # "P"
        \/ isContainerElement(d, getParentElement(d, current))
        \/ ~isBlockEmpty(d, current)
       THEN s
     ELSE IF prevSibling # NoPath /\ nextSibling # NoPath
             /\ isContainerElement(d, prevSibling)
             /\ isContainerElement(d, nextSibling)
             /\ getTagName(d, prevSibling) = getTagName(d, nextSibling)
       THEN [s EXCEPT !.doc = SetNode(d, prevSibling,
                        El(getTagName(d, prevSibling),
                           NodeAt(d, prevSibling).ch \o NodeAt(d, nextSibling).ch)),
                      !.splices = @ + 1]
     ELSE s

mergeAdjacentContainers(s, current) ==
  LET d == s.doc
      prevSibling == getPreviousSibling(d, current)
      nextSibling == getNextSibling(d, current)
  IN IF getTagName(d, current) # "P"
        \/ isContainerElement(d, getParentElement(d, current))
        \/ ~isBlockEmpty(d, current)
       THEN s
     ELSE IF prevSibling # NoPath /\ nextSibling # NoPath
             /\ isContainerElement(d, prevSibling)
             /\ isContainerElement(d, nextSibling)
             /\ getTagName(d, prevSibling) = getTagName(d, nextSibling)
       THEN LET originalLastChild == getLastChild(d, prevSibling)
                s1 == MoveChildren(s, prevSibling, nextSibling)
                s2 == deleteSelection(selectNode(s1, current))
                nextNow == Append(getParentElement(d, nextSibling),
                                  Last(nextSibling) - 1)
                s3 == deleteSelection(selectNode(s2, nextNow))
            IN IF isBlockElement(s3.doc, originalLastChild)
                 THEN setCaretPosition(s3, originalLastChild,
                        Len(getTextContent(s3.doc, originalLastChild)))
                 ELSE s3
     ELSE s

CoalesceBlockquotes_NoInsert(s, blockElement, prevSibling, nextSibling) ==
  LET lastChild == getLastChild(s.doc, prevSibling)
      s4 == deleteSelection([s EXCEPT !.sel =
              Range(getParentElement(s.doc, blockElement), Last(blockElement) - 1,
                    getParentElement(s.doc, nextSibling), Last(nextSibling))])
  IN Done(setCaretAfter(s4, lastChild), TRUE, "coalesce")

\* lines 171-191: an empty paragraph between two blockquotes
CoalesceBlockquotes(s, blockElement, prevSibling, nextSibling) ==
  LET lastChild == getLastChild(s.doc, prevSibling)
      s1 == setCaretAfter(s, lastChild)
      s2 == insertParagraph(s1)
      s3 == insertHTML(s2, NodeAt(s2.doc, nextSibling).ch)
      s4 == deleteSelection([s3 EXCEPT !.sel =
              Range(getParentElement(s3.doc, blockElement), Last(blockElement) - 1,
                    getParentElement(s3.doc, nextSibling), Last(nextSibling))])
  IN IF lastChild = NoPath THEN Threw(s, "coalesce")
     ELSE Done(setCaretAfter(s4, lastChild), TRUE, "coalesce")

\* lines 192-211: an empty paragraph between two other containers
CoalesceByDelete(s, blockElement, prevSibling, nextSibling) ==
  LET d == s.doc
      lastChildOfPrev == getLastChild(d, prevSibling)
      firstChildOfNext == getFirstChild(d, nextSibling)
      range == IF lastChildOfPrev # NoPath /\ firstChildOfNext # NoPath
                 THEN Range(prevSibling, Last(lastChildOfPrev),
                            nextSibling, Last(firstChildOfNext) - 1)
                 ELSE Range(getParentElement(d, prevSibling), Last(prevSibling),
                            getParentElement(d, nextSibling), Last(nextSibling) - 1)
  IN Done(deleteSelection([s EXCEPT !.sel = range]), TRUE, "coalesce")

MergeWithPrevious_ResultFalse(s, blockElement) ==
  LET d == s.doc
      container == getParentElement(d, blockElement)
      previousBlock == getPreviousBlock(d, blockElement)
      previousContainer == getParentElement(d, previousBlock)
      isCrossContainer == isContainerElement(d, previousContainer)
                          /\ ~isContainerElement(d, container)
  IN IF previousBlock = NoPath THEN Done(s, FALSE, "noPrevious")
     ELSE IF isCrossContainer
       THEN LET s1 == IF ~isBlockEmpty(d, blockElement)
                        THEN mergeBlocks(s, previousBlock, blockElement)
                        ELSE setCaretPosition(
                               deleteSelection(selectNode(s, blockElement)),
                               previousBlock,
                               Len(getTextContent(d, previousBlock)))
            IN Done(mergeAdjacentContainers(s1, previousBlock), TRUE, "crossMerge")
     ELSE LET s1 == mergeBlocks(s, previousBlock, blockElement)
          \* blockElement is detached by now: its parentElement is null and
          \* the clean-up of an empty container never applies
          IN Done(mergeAdjacentContainers(s1, previousBlock), FALSE, "sameMerge")

\* lines 226-277: a root-level paragraph is merged into the previous block
MergeWithPrevious(s, blockElement) ==
  LET d == s.doc
      container == getParentElement(d, blockElement)
      previousBlock == getPreviousBlock(d, blockElement)
      previousContainer == getParentElement(d, previousBlock)
      isCrossContainer == isContainerElement(d, previousContainer)
                          /\ ~isContainerElement(d, container)
  IN IF previousBlock = NoPath THEN Done(s, FALSE, "noPrevious")
     ELSE IF isCrossContainer
       THEN LET s1 == IF ~isBlockEmpty(d, blockElement)
                        THEN mergeBlocks(s, previousBlock, blockElement)
                        ELSE setCaretPosition(
                               deleteSelection(selectNode(s, blockElement)),
                               previousBlock,
                               Len(getTextContent(d, previousBlock)))
            IN Done(mergeAdjacentContainers(s1, previousBlock), TRUE, "crossMerge")
     ELSE LET s1 == mergeBlocks(s, previousBlock, blockElement)
          \* blockElement is detached by now: its parentElement is null and
          \* the clean-up of an empty container never applies
          IN Done(mergeAdjacentContainers(s1, previousBlock), TRUE, "sameMerge")

\* lines 144-280: the caret is collapsed and at the start of blockElement
BackspaceAtBlockStart(s, blockElement) ==
  LET d == s.doc
      blockType == getBlockType(d, blockElement)
      container == getParentElement(d, blockElement)
      isInContainer == isContainerElement(d, container)
      isEmpty == isBlockEmpty(d, blockElement)
      isStyledBlock == blockType # "paragraph"
      prevSibling == getPreviousSibling(d, blockElement)
      nextSibling == getNextSibling(d, blockElement)
  IN IF TagOf(d, blockElement) = "P" /\ ~isInContainer /\ isEmpty
       THEN IF prevSibling # NoPath /\ nextSibling # NoPath
               /\ isContainerElement(d, prevSibling)
               /\ isContainerElement(d, nextSibling)
              THEN IF TagOf(d, prevSibling) = "BLOCKQUOTE"
                      /\ TagOf(d, nextSibling) = "BLOCKQUOTE"
                     THEN CoalesceBlockquotes(s, blockElement, prevSibling,
                                              nextSibling)
                     ELSE CoalesceByDelete(s, blockElement, prevSibling,
                                           nextSibling)
              ELSE Done(s, FALSE, "emptyParagraph")
     ELSE IF (isEmpty \/ isStyledBlock) /\ isBlockElement(d, blockElement)
       THEN Done(convertBlockToParagraph(s, blockElement), TRUE, "convert")
     ELSE IF blockType = "paragraph" /\ ~isInContainer
       THEN MergeWithPrevious(s, blockElement)
     ELSE Done(s, FALSE, "fallback")

handleBackspace_RangeToo(s) ==
  LET context == getCursorContext(s.sel)
      blockStart == isAtBlockStart(s.doc, context.container, context.offset)
  IN IF ~context.ok THEN Done(s, FALSE, "noContext")
     ELSE IF ~blockStart.atStart THEN Done(s, FALSE, "notAtStart")
     ELSE BackspaceAtBlockStart(s, blockStart.blockElement)

handleBackspace(s) ==
  LET context == getCursorContext(s.sel)
      blockStart == isAtBlockStart(s.doc, context.container, context.offset)
  IN IF ~context.ok THEN Done(s, FALSE, "noContext")
     ELSE IF ~context.collapsed THEN Done(s, FALSE, "range")
     ELSE IF ~blockStart.atStart THEN Done(s, FALSE, "notAtStart")
     ELSE BackspaceAtBlockStart(s, blockStart.blockElement)

EmptyBlock_Bare(tag) == El(tag, << >>)

\* the argument of insertHTML('<p><br></p>') and of its same-tag variant
EmptyBlock(tag) == El(tag, <<Br>>)

handleEnter_SiblingFirst(s) ==
  LET d == s.doc
      context == getCursorContext(s.sel)
      container == context.common
      emptyBlock == findEmptyBlock(d, container)
      blockInContainer == findBlockInContainer(d, container)
  IN IF ~context.ok THEN Done(s, FALSE, "noContext")
     ELSE IF emptyBlock.found
       THEN Done(convertBlockToParagraph(s, emptyBlock.block), TRUE, "convert")
     ELSE IF blockInContainer.found /\ ~isBlockEmpty(d, blockInContainer.block)
             /\ isAtBlockEnd(d, s.sel, blockInContainer.block)
       THEN LET block == blockInContainer.block
                s1 == insertHTML(setCaretAfter(s, block),
                                 <<EmptyBlock(TagOf(d, block))>>)
                newBlock == getNextSibling(s1.doc, block)
            IN Done(IF newBlock # NoPath THEN setCaretAtStart(s1, newBlock)
                    ELSE s1, TRUE, "sameTagSibling")
     ELSE IF isAtEndOfInlineElement(d, s.sel)
       THEN Done(insertHTML(s, <<EmptyBlock("P")>>), TRUE, "cleanParagraph")
     ELSE Done(s, FALSE, "fallback")

handleEnter(s) ==
  LET d == s.doc
      context == getCursorContext(s.sel)
      container == context.common
      emptyBlock == findEmptyBlock(d, container)
      blockInContainer == findBlockInContainer(d, container)
  IN IF ~context.ok THEN Done(s, FALSE, "noContext")
     ELSE IF emptyBlock.found
       THEN Done(convertBlockToParagraph(s, emptyBlock.block), TRUE, "convert")
     ELSE IF isAtEndOfInlineElement(d, s.sel)
       THEN Done(insertHTML(s, <<EmptyBlock("P")>>), TRUE, "cleanParagraph")
     ELSE IF blockInContainer.found /\ ~isBlockEmpty(d, blockInContainer.block)
             /\ isAtBlockEnd(d, s.sel, blockInContainer.block)
       THEN LET block == blockInContainer.block
                s1 == insertHTML(setCaretAfter(s, block),
                                 <<EmptyBlock(TagOf(d, block))>>)
                newBlock == getNextSibling(s1.doc, block)
            IN Done(IF newBlock # NoPath THEN setCaretAtStart(s1, newBlock)
                    ELSE s1, TRUE, "sameTagSibling")
     ELSE Done(s, FALSE, "fallback")

TabText_Two == <<"nbsp", "nbsp">>

\* the text of '&nbsp;&nbsp;&nbsp;&nbsp;'
TabText == <<"nbsp", "nbsp", "nbsp", "nbsp">>

handleTab(s) == Done(insertHTML(s, <<T(TabText)>>), TRUE, "tab")

\* ========================================================== the documents
P(x) == El("P", <<T(x)>>)

EmptyP == El("P", <<Br>>)

Editor(c) == El("DIV", c)

ScenarioA ==
  Editor(<<El("BLOCKQUOTE", <<P(<<"a", "b", "c">>), P(<<"d", "e", "f">>)>>)>>)

ScenarioB ==
  Editor(<<El("BLOCKQUOTE", <<P(<<"a">>)>>), EmptyP,
           El("BLOCKQUOTE", <<P(<<"c">>)>>)>>)

ScenarioC == Editor(<<El("BLOCKQUOTE", <<P(<<"a">>), EmptyP, P(<<"c">>)>>)>>)

ScenarioD == Editor(<<El("H2", <<T(<<"a", "b">>)>>)>>)

ScenarioE ==
  Editor(<<El("UL", <<El("LI", <<T(<<"a">>)>>), El("LI", <<Br>>)>>)>>)

DocLists ==
  Editor(<<El("UL", <<El("LI", <<T(<<"a">>)>>)>>), EmptyP,
           El("UL", <<El("LI", <<T(<<"b">>)>>), El("LI", <<T(<<"c">>)>>)>>)>>)

DocCross ==
  Editor(<<El("BLOCKQUOTE", <<P(<<"a">>)>>), P(<<"b">>),
           El("BLOCKQUOTE", <<P(<<"c">>)>>)>>)

DocInline ==
  Editor(<<P(<<"a">>),
           El("P", <<El("STRONG", <<T(<<"b">>)>>), T(<<"c">>)>>)>>)

DocEmptyTarget ==
  Editor(<<El("BLOCKQUOTE", <<P(<<"a">>)>>), EmptyP, P(<<"b">>),
           El("BLOCKQUOTE", <<P(<<"c">>)>>)>>)

DocCode ==
  Editor(<<El("PRE", <<El("CODE", <<T(<<"a">>)>>)>>), El("H1", <<Br>>)>>)

DocNbsp == Editor(<<El("H2", <<T(<<"nbsp">>), El("EM", <<T(<<"a">>)>>)>>)>>)

DocMixed ==
  Editor(<<El("BLOCKQUOTE", <<P(<<"a">>)>>), EmptyP,
           El("UL", <<El("LI", <<T(<<"b">>)>>)>>)>>)

DocQuotedHeading ==
  Editor(<<El("BLOCKQUOTE", <<El("H3", <<T(<<"a">>)>>)>>), P(<<" ", "b">>)>>)

DocStyledItem ==
  Editor(<<El("OL", <<El("LI", <<El("STRONG", <<T(<<"a">>)>>)>>)>>), EmptyP>>)

Docs ==
  {ScenarioA, ScenarioB, ScenarioC, ScenarioD, ScenarioE, DocLists, DocCross,
   DocInline, DocEmptyTarget, DocCode, DocNbsp, DocMixed, DocQuotedHeading,
   DocStyledItem}

SeqToSet(q) == {q[i] : i \in 1..Len(q)}

\* the selections the user can make in tree d: none, a caret in a text node
\* or at the start of an element, or a range over one text node
Selections(d) ==
  LET tps == SeqToSet(TextPaths(d, << >>))
  IN {NoSel}
     \cup UNION {{Caret(t, o) : o \in 0..Len(NodeAt(d, t).txt)} : t \in tps}
     \cup {Caret(e, 0) : e \in {x \in ElemPaths(d, << >>) : TagOf(d, x) # "BR"}}
     \cup {Range(t, 0, t, Len(NodeAt(d, t).txt)) : t \in tps}

\* ============================================ the component (MarkdownEditor)
\* HTML is the tree it denotes: editor.innerHTML is doc, and '' is the editor
\* without children.  Markdown is what the serializer keeps of a tree.
NoHtml == Editor(<< >>)

\* turndown drops line breaks and blocks left blank; inline styles stay
RECURSIVE Norm(_)
RECURSIVE NormSeq(_)
Norm(n) ==
  IF n.tag = "#text" THEN (IF n.txt = << >> THEN << >> ELSE <<n>>)
  ELSE IF n.tag = "BR" THEN << >>
  ELSE LET c == NormSeq(n.ch)
       IN IF c = << >> THEN << >> ELSE <<El(n.tag, c)>>

NormSeq(q) == IF q = << >> THEN << >> ELSE Norm(Head(q)) \o NormSeq(Tail(q))

\* this.turndownService.turndown(html)
turndown(html) == [md |-> Editor(NormSeq(html.ch))]

\* this.md.render(markdown)
render(markdown) == markdown.md

\* no input event has been emitted yet
NoMarkdown == [md |-> El("NONE", << >>)]

\* the outcome of one component callback
NoOp ==
  [name |-> "none", after |-> "none", assigns |-> 0, emits |-> 0,
   error |-> FALSE, prevented |-> 0, scheduled |-> 0, echo |-> FALSE]

\* created(): the two services are constructed one after the other; fresh
\* tells that internalHtml is still the HTML of the last emit
initializeServices(mdPkg, tdPkg) == [md |-> mdPkg, td |-> mdPkg /\ tdPkg]

Created(value, mdPkg, tdPkg) ==
  [phase |-> "created",
   md |-> initializeServices(mdPkg, tdPkg).md,
   td |-> initializeServices(mdPkg, tdPkg).td,
   internalHtml |-> NoHtml, value |-> value, pending |-> 0,
   emitted |-> NoMarkdown, fresh |-> FALSE, assigned |-> 0, op |-> NoOp]

\* the component of the key-handler specifications: mounted, idle
Mounted == [Created(turndown(NoHtml), TRUE, TRUE) EXCEPT !.phase = "mounted"]

\* a callback at work: the component, the editor's tree and selection, and
\* what the callback has done so far
W(c, d, s) ==
  [c |-> c, doc |-> d, sel |-> s, assigns |-> 0, emits |-> 0, error |-> FALSE]

Fail(w) == [w EXCEPT !.error = TRUE]

\* getter of markdownContent (the caller has checked the serializer)
markdownContentGet(c) == turndown(c.internalHtml)

\* setter of htmlContent: assigning innerHTML drops the selection
htmlContentSet(w, html) ==
  LET w1 == [w EXCEPT !.c.internalHtml = html, !.c.fresh = FALSE]
  IN IF w.doc # html
       THEN [w1 EXCEPT !.doc = html, !.sel = NoSel, !.assigns = @ + 1,
                       !.c.assigned = @ + 1]
       ELSE w1

markdownContentSet_Unchecked(w, markdown) ==
  IF ~w.c.md THEN htmlContentSet(w, Editor(<<T(<<"u">>)>>))
  ELSE IF ~w.c.td THEN Fail(w)
  ELSE IF markdown # markdownContentGet(w.c)
    THEN htmlContentSet(w, render(markdown))
  ELSE w

\* setter of markdownContent
markdownContentSet(w, markdown) ==
  IF ~w.c.md THEN Fail(w)
  ELSE IF ~w.c.td THEN Fail(w)
  ELSE IF markdown # markdownContentGet(w.c)
    THEN htmlContentSet(w, render(markdown))
  ELSE w

watchValue_NoGate(w, newValue) ==
  IF ~w.c.td \/ ~w.c.md THEN Fail(w)
  ELSE htmlContentSet(w, render(newValue))

\* watch.value
watchValue(w, newValue) ==
  IF ~w.c.td THEN Fail(w)
  ELSE IF markdownContentGet(w.c) # newValue
    THEN markdownContentSet(w, newValue)
  ELSE w

handleUserHtmlChange_EmitFirst(w, html) ==
  IF ~w.c.td THEN Fail([w EXCEPT !.c.internalHtml = html])
  ELSE [w EXCEPT !.c.emitted = markdownContentGet(w.c), !.emits = @ + 1,
                 !.c.internalHtml = html, !.c.fresh = TRUE]

handleUserHtmlChange_ViaSetter(w, html) ==
  IF ~w.c.td THEN Fail(w)
  ELSE LET w1 == markdownContentSet(w, turndown(html))
       IN [w1 EXCEPT !.c.emitted = markdownContentGet(w1.c), !.emits = @ + 1,
                     !.c.fresh = TRUE]

handleUserHtmlChange(w, html) ==
  LET w1 == [w EXCEPT !.c.internalHtml = html]
  IN IF ~w.c.td THEN Fail(w1)
     ELSE [w1 EXCEPT !.c.emitted = markdownContentGet(w1.c), !.emits = @ + 1,
                     !.c.fresh = TRUE]

KeyNames == {"Tab", "Backspace", "Enter", "Other"}

handleKeydown_AlwaysPrevent(d, s, key) ==
  LET st == St(d, s)
      r == IF key = "Tab" THEN handleTab(st)
           ELSE IF key = "Backspace" THEN handleBackspace(st)
           ELSE IF key = "Enter" THEN handleEnter(st)
           ELSE Done(st, FALSE, "none")
  IN [res |-> r, prevented |-> 1,
      scheduled |-> IF ~r.threw /\ r.handled THEN 1 ELSE 0]

\* handleKeydown: the switch on event.key, then the handled branch; an
\* exception of a handler leaves the method at once
handleKeydown(d, s, key) ==
  LET st == St(d, s)
      r == IF key = "Tab" THEN handleTab(st)
           ELSE IF key = "Backspace" THEN handleBackspace(st)
           ELSE IF key = "Enter" THEN handleEnter(st)
           ELSE Done(st, FALSE, "none")
      early == IF key = "Tab" THEN 1 ELSE 0
  IN [res |-> r,
      prevented |-> early + (IF ~r.threw /\ r.handled THEN 1 ELSE 0),
      scheduled |-> IF ~r.threw /\ r.handled THEN 1 ELSE 0]

\* the methods of the class exported by MarkdownBlockEditor2.js
MarkdownBlockEditorMethods ==
  {"log", "convertBlockToParagraph", "mergeBlocks", "mergeAdjacentContainers",
   "handleBackspace", "handleEnter", "handleTab"}

\* handlePaste: html tells whether the clipboard holds text/html; clip is the
\* tree of the clipboard's HTML, or the tree its plain text renders to.  A
\* call on a missing service or of a missing method ends the handler in a
\* TypeError.
handlePaste(c, d, s, html, clip) ==
  LET st == St(d, s)
      contentToInsert == IF html THEN turndown(clip) ELSE [md |-> clip]
  IN IF (html /\ ~c.td) \/ ~c.md
          \/ "insertHTML" \notin MarkdownBlockEditorMethods
       THEN [res |-> st, prevented |-> 1, scheduled |-> 0, error |-> TRUE]
       ELSE [res |-> insertHTML(st, render(contentToInsert).ch),
             prevented |-> 1, scheduled |-> 1, error |-> FALSE]

\* ============================== the timer-guarded editor (App.vue, data/methods)
\* data(), with the timer handle editingTimeout (TRUE: a timeout is pending)
\* and the $nextTick callbacks not yet run; op and ignored record the last
\* callback and whether a change of markdownContent was kept from the editor
AppData(markdown) ==
  [markdownContent |-> markdown, htmlContent |-> NoHtml,
   isUpdatingFromMarkdown |-> FALSE, isUserEditing |-> FALSE,
   editingTimeout |-> FALSE, ticks |-> << >>, op |-> "none",
   ignored |-> FALSE]

\* the specifications of the block editor have no App instance at work
NoApp == AppData(NoMarkdown)

\* a callback of App at work: its data, the editor's tree and selection
AppW(a, d, s) == [a |-> a, doc |-> d, sel |-> s]

\* updateHtmlFromMarkdown; v-html assigns innerHTML when htmlContent changes
updateHtmlFromMarkdown(w) ==
  IF w.a.isUserEditing THEN w
  ELSE LET html == render(w.a.markdownContent)
           a1 == [w.a EXCEPT !.isUpdatingFromMarkdown = TRUE,
                             !.htmlContent = html,
                             !.ticks = Append(@, "clearUpdating")]
       IN IF html # w.a.htmlContent THEN AppW(a1, html, NoSel)
          ELSE [w EXCEPT !.a = a1]

\* watch.markdownContent (viewMode is 'editor' while the editor exists)
watchMarkdownContent(w) ==
  IF ~w.a.isUpdatingFromMarkdown /\ ~w.a.isUserEditing
    THEN updateHtmlFromMarkdown(w)
    ELSE [w EXCEPT !.a.ignored = TRUE]

\* an assignment to markdownContent; the watcher runs when the value changed
markdownContentAssign(w, markdown) ==
  IF markdown = w.a.markdownContent THEN w
  ELSE watchMarkdownContent([w EXCEPT !.a.markdownContent = markdown,
                                      !.a.ignored = FALSE])

updateMarkdownFromHtml(w, html) ==
  IF ~w.a.isUpdatingFromMarkdown
    THEN markdownContentAssign(w, turndown(html))
    ELSE w

\* resetEditingTimeout: clearTimeout, then setTimeout
resetEditingTimeout(w) == [w EXCEPT !.a.editingTimeout = TRUE]

\* handleInput
handleInput(w) ==
  LET w1 == updateMarkdownFromHtml([w EXCEPT !.a.isUserEditing = TRUE], w.doc)
  IN [w1 EXCEPT !.a.editingTimeout = TRUE]

\* parentLi: closest('li') from the common ancestor of the range
parentLiOf(d, s) ==
  IF s.rc = 0 THEN NoPath ELSE UpTo(d, StartElement(d, s.sc), {"LI"})

\* Enter in an empty list item: the items after it leave the list, the item
\* is removed, and a paragraph (followed by a list of the items that left)
\* is inserted after the list; the caret goes to the paragraph
breakOutOfList(w, parentLi) ==
  LET listContainer == getParentElement(w.doc, parentLi)
      lst == NodeAt(w.doc, listContainer)
      i == Last(parentLi)
      after == SubSeq(lst.ch, i + 1, Len(lst.ch))
      remainingItems == SelectSeq(after, LAMBDA n : n.tag # "#text")
      kept == SubSeq(lst.ch, 1, i - 1)
                \o SelectSeq(after, LAMBDA n : n.tag = "#text")
      listTag == IF lst.tag = "OL" THEN "OL" ELSE "UL"
      htmlToInsert == <<EmptyP>>
                        \o (IF remainingItems # << >>
                              THEN <<El(listTag, remainingItems)>> ELSE << >>)
      newP == Append(getParentElement(w.doc, listContainer),
                     Last(listContainer) + 1)
  IN [w EXCEPT !.doc = ReplaceAt(w.doc, listContainer,
                                 <<[lst EXCEPT !.ch = kept]>> \o htmlToInsert),
               !.sel = Caret(newP, 0)]

\* handleKeydown of App: the flag is raised for every key; the two branches
\* that edit the tree schedule a read-back that restarts the timer
AppKeyNames == {"Tab", "Enter", "Shift"}

handleKeydownApp(w, key) ==
  LET w0 == [w EXCEPT !.a.isUserEditing = TRUE]
      parentLi == parentLiOf(w.doc, w.sel)
      ins(nodes) == insertHTML(St(w0.doc, w0.sel), nodes)
      tick(x) == [x EXCEPT !.a.ticks = Append(@, "readback")]
  IN IF key = "Tab"
       THEN tick([w0 EXCEPT !.doc = ins(<<T(TabText)>>).doc,
                            !.sel = ins(<<T(TabText)>>).sel])
     ELSE IF key = "Enter" /\ parentLi # NoPath
       THEN IF IsTrimEmpty(getTextContent(w.doc, parentLi))
              THEN tick(breakOutOfList(w0, parentLi))
              ELSE tick([w0 EXCEPT !.doc = ins(<<El("LI", << >>)>>).doc,
                                   !.sel = ins(<<El("LI", << >>)>>).sel])
     ELSE w0

\* the default action of Enter that handleKeydown has not prevented: the host
\* cuts the block of the caret in two (a half without text keeps a line
\* break) and puts the caret at the start of the second half
hostEnter(d, s) ==
  LET b == UpTo(d, StartElement(d, s.sc), BLOCK_TAGS)
      blk == NodeAt(d, b)
      rel == SubSeq(s.sc, Len(b) + 1, Len(s.sc))
      half(h) == IF HalfOf(h) = << >> THEN <<El(blk.tag, <<Br>>)>>
                 ELSE HalfOf(h)
  IN IF s.rc = 0 \/ b = NoPath THEN [doc |-> d, sel |-> s, edited |-> FALSE]
     ELSE [doc |-> ReplaceAt(d, b, half(SplitL(blk, rel, s.so))
                                     \o half(SplitR(blk, rel, s.so))),
           sel |-> Caret(Append(getParentElement(d, b), Last(b) + 1), 0),
           edited |-> TRUE]

\* one $nextTick callback
runTick(w, name) ==
  IF name = "clearUpdating" THEN [w EXCEPT !.a.isUpdatingFromMarkdown = FALSE]
  ELSE resetEditingTimeout(updateMarkdownFromHtml(w, w.doc))

\* ========================================================= the state machine
NoEvent ==
  [key |-> "none", handled |-> FALSE, rule |-> "none", cmds |-> << >>,
   splices |-> 0, threw |-> FALSE]

Init ==
  /\ doc \in Docs
  /\ sel \in Selections(doc)
  /\ pre = [doc |-> doc, sel |-> sel]
  /\ last = NoEvent
  /\ nkeys = 0
  /\ comp = Mounted
  /\ app = NoApp

\* the component's keydown dispatch: the handler of the key runs to its end
Key(key, r) ==
  /\ nkeys < MaxKeys
  /\ doc' = r.doc
  /\ sel' = r.sel
  /\ pre' = [doc |-> doc, sel |-> sel]
  /\ last' = [key |-> key, handled |-> r.handled, rule |-> r.rule,
              cmds |-> r.cmds, splices |-> r.splices, threw |-> r.threw]
  /\ nkeys' = nkeys + 1
  /\ UNCHANGED <<comp, app>>

Backspace == Key("Backspace", handleBackspace(St(doc, sel)))

Enter == Key("Enter", handleEnter(St(doc, sel)))

Tab == Key("Tab", handleTab(St(doc, sel)))

\* the user moves the caret or selects a range
Select ==
  /\ \E s \in Selections(doc) \ {sel} :
       /\ sel' = s
       /\ pre' = [doc |-> doc, sel |-> s]
  /\ last' = NoEvent
  /\ UNCHANGED <<doc, nkeys, comp, app>>

Next == Backspace \/ Enter \/ Tab \/ Select

Spec == Init /\ [][Next]_vars

\* ------------------------------------------------- the component at work
\* documents the parent passes as the value prop; with html: true a markdown
\* text may carry any markup, blank paragraphs included
ValueDocs == {NoHtml, ScenarioB, ScenarioC}

Values == {[md |-> d] : d \in ValueDocs}

InitComponent ==
  /\ doc = NoHtml
  /\ sel = NoSel
  /\ pre = [doc |-> doc, sel |-> sel]
  /\ last = NoEvent
  /\ nkeys = 0
  /\ \E v \in Values, mdPkg \in BOOLEAN, tdPkg \in BOOLEAN :
       comp = Created(v, mdPkg, tdPkg)
  /\ app = NoApp

\* what a callback leaves in the component record
Outcome(w, name, prevented, scheduled, echo) ==
  [w.c EXCEPT !.op = [name |-> name, after |-> comp.op.name,
                      assigns |-> w.assigns, emits |-> w.emits,
                      error |-> w.error, prevented |-> prevented,
                      scheduled |-> scheduled, echo |-> echo]]

\* the callbacks of the next tick run before any further event
Idle == comp.phase = "mounted" /\ comp.pending = 0

\* mounted(): the block editor is created, then markdownContent = value
Mount ==
  /\ comp.phase = "created"
  /\ LET w == markdownContentSet(W([comp EXCEPT !.phase = "mounted"], doc, sel),
                                 comp.value)
     IN /\ doc' = w.doc
        /\ sel' = w.sel
        /\ pre' = [doc |-> w.doc, sel |-> w.sel]
        /\ comp' = Outcome(w, "mount", 0, 0, FALSE)
  /\ UNCHANGED <<last, nkeys, app>>

KeyDown ==
  /\ Idle /\ nkeys < MaxKeys
  /\ \E key \in KeyNames :
       \E k \in {handleKeydown(doc, sel, key)} :
          /\ doc' = k.res.doc
          /\ sel' = k.res.sel
          /\ pre' = [doc |-> doc, sel |-> sel]
          /\ last' = [key |-> key, handled |-> k.res.handled,
                      rule |-> k.res.rule, cmds |-> k.res.cmds,
                      splices |-> k.res.splices, threw |-> k.res.threw]
          /\ comp' = [Outcome(W(comp, doc, sel), "keydown", k.prevented,
                              k.scheduled, FALSE)
                        EXCEPT !.pending = @ + k.scheduled,
                               !.op.error = k.res.threw]
  /\ nkeys' = nkeys + 1
  /\ UNCHANGED app

\* the $nextTick callback of handleKeydown
ReadBack ==
  /\ comp.phase = "mounted" /\ comp.pending > 0
  /\ LET w == handleUserHtmlChange(W(comp, doc, sel), doc)
     IN comp' = [Outcome(w, "readback", 0, 0, FALSE) EXCEPT !.pending = @ - 1]
  /\ UNCHANGED <<doc, sel, pre, last, nkeys, app>>

\* the user types a character: the host edits the tree and fires input
UserInput ==
  /\ Idle /\ nkeys < MaxKeys
  /\ sel.rc = 1 /\ sel.sc = sel.ec /\ sel.so = sel.eo
  /\ LET typed == insertText(St(doc, sel), <<"x">>)
         w == handleUserHtmlChange(W(comp, typed.doc, typed.sel), typed.doc)
     IN /\ doc' = w.doc
        /\ sel' = w.sel
        /\ pre' = [doc |-> doc, sel |-> sel]
        /\ comp' = Outcome(w, "input", 0, 0, FALSE)
  /\ last' = NoEvent
  /\ nkeys' = nkeys + 1
  /\ UNCHANGED app

\* the parent changes the value prop, to the markdown just emitted or to
\* another document
SetValue ==
  /\ Idle /\ nkeys < MaxKeys
  /\ \E v \in (Values \cup {comp.emitted}) \ {comp.value, NoMarkdown} :
       LET w == watchValue(W([comp EXCEPT !.value = v], doc, sel), v)
       IN /\ doc' = w.doc
          /\ sel' = w.sel
          /\ pre' = [doc |-> doc, sel |-> sel]
          /\ comp' = Outcome(w, "setValue", 0, 0,
                             comp.fresh /\ v = comp.emitted)
  /\ last' = NoEvent
  /\ nkeys' = nkeys + 1
  /\ UNCHANGED app

\* the user pastes HTML or plain text
Paste ==
  /\ Idle /\ nkeys < MaxKeys
  /\ \E html \in BOOLEAN, clip \in ValueDocs \ {NoHtml} :
       \E k \in {handlePaste(comp, doc, sel, html, clip)} :
          /\ doc' = k.res.doc
          /\ sel' = k.res.sel
          /\ pre' = [doc |-> doc, sel |-> sel]
          /\ last' = [key |-> "paste", handled |-> FALSE, rule |-> "paste",
                      cmds |-> k.res.cmds, splices |-> k.res.splices,
                      threw |-> k.error]
          /\ comp' = [Outcome(W(comp, doc, sel), "paste", k.prevented,
                              k.scheduled, FALSE)
                        EXCEPT !.pending = @ + k.scheduled,
                               !.op.error = k.error]
  /\ nkeys' = nkeys + 1
  /\ UNCHANGED app

\* the user moves the caret or selects a range in the mounted editor
SelectIdle ==
  /\ Idle
  /\ \E s \in Selections(doc) \ {sel} :
       /\ sel' = s
       /\ pre' = [doc |-> doc, sel |-> s]
  /\ last' = NoEvent
  /\ comp' = [comp EXCEPT !.op = [NoOp EXCEPT !.name = "select",
                                              !.after = comp.op.name]]
  /\ UNCHANGED <<doc, nkeys, app>>

NextComponent ==
  Mount \/ KeyDown \/ ReadBack \/ UserInput \/ SetValue \/ Paste \/ SelectIdle

SpecComponent == InitComponent /\ [][NextComponent]_vars

\* ------------------------------------------- trees of any shape in the editor
\* With html: true the parser passes raw HTML through, and a paste can deliver
\* any markup: a container need not hold blocks, and text may precede an
\* inline element.
DocBareQuotes ==
  Editor(<<El("BLOCKQUOTE", <<T(<<"a">>)>>), EmptyP,
           El("BLOCKQUOTE", <<T(<<"c">>)>>)>>)

DocBareLists ==
  Editor(<<El("UL", <<T(<<"a">>)>>), EmptyP, El("UL", <<T(<<"c">>)>>)>>)

DocTextInline ==
  Editor(<<P(<<"x">>), El("P", <<T(<<"a">>), El("EM", <<T(<<"b">>)>>)>>)>>)

DocRootText == Editor(<<T(<<"a">>), El("H1", <<T(<<"b">>)>>)>>)

\* wrappers the host leaves behind when it joins blocks of different styles
DocSpans ==
  Editor(<<El("BLOCKQUOTE", <<P(<<"a">>)>>),
           El("P", <<Span(<<"font-size", "margin">>,
                          <<T(<<"b">>),
                            Span(<<"font-style: italic">>, <<T(<<"c">>)>>)>>),
                     Span(<<"font-weight: bold", "font-size">>,
                          <<T(<<"d">>)>>)>>)>>)

\* a list nested in a blockquote ("> a" followed by "> - b"), then a paragraph
DocNested ==
  Editor(<<P(<<"x">>),
           El("BLOCKQUOTE", <<P(<<"a">>), El("UL", <<El("LI", <<T(<<"b">>)>>)>>)>>),
           P(<<"c">>)>>)

WildDocs ==
  {DocBareQuotes, DocBareLists, DocTextInline, DocRootText, DocNested,
   DocSpans, DocNbsp, DocQuotedHeading, ScenarioB}

InitWild ==
  /\ doc \in WildDocs
  /\ sel \in Selections(doc)
  /\ pre = [doc |-> doc, sel |-> sel]
  /\ last = NoEvent
  /\ nkeys = 0
  /\ comp = Mounted
  /\ app = NoApp

SpecWild == InitWild /\ [][Next]_vars

\* ------------------------------------ coalescing applied to a kept reference
\* The caller of mergeAdjacentContainers holds a reference to a node, not a
\* position: the node is marked so that it can be found again after the call.
RefMark == <<"ref">>

Mark(d, p) == SetNode(d, p, [NodeAt(d, p) EXCEPT !.txt = RefMark])

RefPath(d) ==
  LET S == {p \in ElemPaths(d, << >>) : NodeAt(d, p).txt = RefMark}
  IN IF S = {} THEN NoPath ELSE CHOOSE p \in S : TRUE

Unmark(d) ==
  IF RefPath(d) = NoPath THEN d
  ELSE SetNode(d, RefPath(d), [NodeAt(d, RefPath(d)) EXCEPT !.txt = << >>])

\* a further call with the reference of the call before: a node that has left
\* the tree has no parent and no element siblings, so the test of lines 93-96
\* fails and nothing is done
mergeAdjacentContainersAgain(s) ==
  IF RefPath(s.doc) = NoPath THEN s
  ELSE mergeAdjacentContainers(s, RefPath(s.doc))

\* mergeAdjacentContainers is called twice in a row with one reference; pre
\* keeps the tree as the first call left it, doc the tree after the second
Coalesce ==
  /\ nkeys < MaxKeys
  /\ \E p \in ElemPaths(doc, << >>) :
       LET once == mergeAdjacentContainers(St(Mark(doc, p), sel), p)
           twice == mergeAdjacentContainersAgain(once)
       IN /\ doc' = Unmark(twice.doc)
          /\ sel' = twice.sel
          /\ pre' = [doc |-> Unmark(once.doc), sel |-> once.sel]
          /\ last' = [key |-> "coalesce", handled |-> FALSE, rule |-> "coalesce",
                      cmds |-> twice.cmds, splices |-> twice.splices,
                      threw |-> FALSE]
  /\ nkeys' = nkeys + 1
  /\ UNCHANGED <<comp, app>>

NextCoalesce == Coalesce \/ Select

SpecCoalesce == Init /\ [][NextCoalesce]_vars

\* ================================ the timer-guarded editor (App.vue) at work
\* documents of the markdown text: lists with filled and blank items
DocOpenItem ==
  Editor(<<El("OL", <<El("LI", <<T(<<"a">>)>>), El("LI", <<Br>>),
                      El("LI", <<T(<<"c">>)>>)>>)>>)

AppValues == {[md |-> d] : d \in {ScenarioE, DocLists, DocOpenItem, DocInline}}

\* where the user can put the caret: in a text node or in a block
AppSelections(d) ==
  {s \in Selections(d) :
     s.rc = 1 => /\ s.sc = s.ec /\ s.so = s.eo
                 /\ (IsText(d, s.sc) \/ TagOf(d, s.sc) \in BLOCK_TAGS)}

\* mounted() has rendered markdownContent and its $nextTick callback has run;
\* the user has clicked into the editor or not
InitApp ==
  /\ \E v \in AppValues :
       /\ app = [AppData(v) EXCEPT !.htmlContent = render(v)]
       /\ doc = render(v)
  /\ sel \in AppSelections(doc)
  /\ pre = [doc |-> doc, sel |-> sel]
  /\ last = NoEvent
  /\ nkeys = 0
  /\ comp = Mounted

\* the callbacks of the next tick run before any further event or timer
AppIdle == app.ticks = << >>

AppDone(w, name) ==
  /\ app' = [w.a EXCEPT !.op = name]
  /\ doc' = w.doc
  /\ sel' = w.sel
  /\ pre' = [doc |-> doc, sel |-> sel]
  /\ last' = NoEvent
  /\ UNCHANGED comp

\* a key goes down in the editor; Enter that was not prevented edits the
\* tree, and the host then fires input
AppKeyDown ==
  /\ AppIdle /\ nkeys < MaxKeys
  /\ \E key \in AppKeyNames :
       \E k \in {handleKeydownApp(AppW(app, doc, sel), key)} :
         \E h \in {hostEnter(k.doc, k.sel)} :
           IF key = "Enter" /\ parentLiOf(doc, sel) = NoPath /\ h.edited
             THEN AppDone(handleInput(AppW(k.a, h.doc, h.sel)), "keydown")
             ELSE AppDone(k, "keydown")
  /\ nkeys' = nkeys + 1

\* the user types a character: the host edits the tree and fires input
AppInput ==
  /\ AppIdle /\ nkeys < MaxKeys
  /\ sel.rc = 1
  /\ LET typed == insertText(St(doc, sel), <<"x">>)
     IN AppDone(handleInput(AppW(app, typed.doc, typed.sel)), "input")
  /\ nkeys' = nkeys + 1

\* the oldest $nextTick callback runs
AppTick ==
  /\ app.ticks # << >>
  /\ AppDone(runTick(AppW([app EXCEPT !.ticks = Tail(@)], doc, sel),
                     Head(app.ticks)), "tick")
  /\ UNCHANGED nkeys

\* the 500 ms of editingTimeout have passed
AppTimeout ==
  /\ AppIdle /\ app.editingTimeout
  /\ AppDone(AppW([app EXCEPT !.isUserEditing = FALSE,
                              !.editingTimeout = FALSE], doc, sel), "timeout")
  /\ UNCHANGED nkeys

\* the markdown text is changed from outside the editor (the debug textarea
\* bound by v-model)
AppExternalChange ==
  /\ AppIdle /\ nkeys < MaxKeys
  /\ \E v \in AppValues \ {app.markdownContent} :
       AppDone(markdownContentAssign(AppW(app, doc, sel), v), "external")
  /\ nkeys' = nkeys + 1

NextApp == AppKeyDown \/ AppInput \/ AppTick \/ AppTimeout \/ AppExternalChange

\* a pending timeout fires and a scheduled callback runs, whatever the user
\* does
SpecApp ==
  InitApp /\ [][NextApp]_vars /\ WF_vars(AppTick) /\ WF_vars(AppTimeout)

\* ============================================== properties of the handlers
\* the selection before the last key event was a collapsed caret
PreCaret ==
  pre.sel.rc = 1 /\ pre.sel.sc = pre.sel.ec /\ pre.sel.so = pre.sel.eo

\* the nearest block enclosing the selection before the last key event
PreBlock ==
  IF pre.sel.rc = 0 THEN NoPath
  ELSE UpTo(pre.doc, StartElement(pre.doc, CommonPrefix(pre.sel.sc, pre.sel.ec)),
            BLOCK_TAGS)

\* the caret was collapsed and, by the Block Model, at the start of its block
PreAtStart ==
  PreCaret /\ isAtBlockStart(pre.doc, pre.sel.sc, pre.sel.so).atStart

PreInContainer ==
  isContainerElement(pre.doc, getParentElement(pre.doc, PreBlock))

ConvertCmds == <<"outdent", "formatBlock">>

\* C1: Backspace with the collapsed caret at the start of any block whose
\* parent is a container converts the block to a paragraph by outdent then
\* formatBlock('p') and returns handled (also for a non-empty paragraph in a
\* blockquote).
C1_ContainerBlockConverted ==
  (last.key = "Backspace" /\ PreAtStart /\ PreInContainer)
    => (last.handled /\ last.cmds = ConvertCmds)

\* C2: Scenario A: from blockquote(p("abc"), p("def")) with the caret at the
\* start of "def", one Backspace is handled by the editor and yields
\* blockquote(p("abcdef")) with the caret between "abc" and "def".
C2_ScenarioA ==
  (last.key = "Backspace" /\ pre.doc = ScenarioA
   /\ pre.sel = Caret(<<1, 2, 1>>, 0))
    => /\ last.handled
       /\ doc = Editor(<<El("BLOCKQUOTE",
                            <<P(<<"a", "b", "c", "d", "e", "f">>)>>)>>)
       /\ sel = Caret(<<1, 1, 1>>, 3)

\* the caret was in a root-level paragraph without any text whose previous
\* and next element siblings are containers of the same kind
C3Pre ==
  /\ last.key = "Backspace" /\ PreCaret
  /\ PreBlock # NoPath /\ Len(PreBlock) = 1
  /\ TagOf(pre.doc, PreBlock) = "P"
  /\ getTextContent(pre.doc, PreBlock) = << >>
  /\ isContainerElement(pre.doc, getPreviousSibling(pre.doc, PreBlock))
  /\ isContainerElement(pre.doc, getNextSibling(pre.doc, PreBlock))
  /\ TagOf(pre.doc, getPreviousSibling(pre.doc, PreBlock))
       = TagOf(pre.doc, getNextSibling(pre.doc, PreBlock))

C4_NoAdjacentSameKind ==
  (last.key = "Backspace" /\ last.rule = "crossMerge")
    => LET c == getParentElement(pre.doc, getPreviousBlock(pre.doc, PreBlock))
           n == getNextSibling(doc, c)
       IN ~(isContainerElement(doc, n) /\ TagOf(doc, n) = TagOf(doc, c))

\* C5: every handled Backspace or Enter leaves the concatenated text of the
\* tree, in document order, as it was.
C5_TextPreserved ==
  (last.key \in {"Backspace", "Enter"} /\ last.handled)
    => TextContent(doc) = TextContent(pre.doc)

\* C6: no container of the tree is without children.
C6_ContainersNonEmpty ==
  \A p \in ElemPaths(doc, << >>) :
    TagOf(doc, p) \in CONTAINER_TAGS => NodeAt(doc, p).ch # << >>

\* a block that was the only child of its container has been converted
W_C6 ==
  /\ last.handled /\ last.cmds = ConvertCmds /\ PreInContainer
  /\ Len(NodeAt(pre.doc, getParentElement(pre.doc, PreBlock)).ch) = 1

\* C7: no key event changes the tree other than by structural edit commands.
C7_NoDirectSplice == last.splices = 0

StyledRootTags ==
  {"H1", "H2", "H3", "H4", "H5", "H6", "BLOCKQUOTE", "PRE"}

\* the root-level styled block with the caret at its very start, if any
C9Block ==
  IF ~PreCaret \/ pre.sel.so # 0 THEN NoPath
  ELSE LET S == {i \in 1..Len(pre.doc.ch) :
                   /\ pre.doc.ch[i].tag \in StyledRootTags
                   /\ \/ pre.sel.sc = <<i>>
                      \/ LET tps == TextPaths(pre.doc.ch[i], <<i>>)
                         IN tps # << >> /\ pre.sel.sc = tps[1]}
       IN IF S = {} THEN NoPath ELSE <<CHOOSE i \in S : TRUE>>

\* C9: Backspace at the start of a root-level heading, blockquote or code
\* block is handled and replaces the block by a paragraph with the same text,
\* the caret at offset 0 of that paragraph.
C9_StyledRootBlock ==
  (last.key = "Backspace" /\ C9Block # NoPath)
    => /\ last.handled
       /\ Len(doc.ch) = Len(pre.doc.ch)
       /\ TagOf(doc, C9Block) = "P"
       /\ getTextContent(doc, C9Block) = getTextContent(pre.doc, C9Block)
       /\ sel.so = 0 /\ sel.eo = 0 /\ sel.sc = sel.ec
       /\ SubSeq(sel.sc, 1, 1) = C9Block

\* C10: Enter issues the convert-to-paragraph primitive, on the nearest block
\* enclosing the caret, and returns handled exactly when that block is empty
\* and is a non-paragraph block or a child of a container; an empty
\* root-level paragraph is never converted.
C10_EnterConvertsEmptyBlock ==
  last.key = "Enter" =>
    /\ (last.cmds = ConvertCmds)
         <=> /\ PreBlock # NoPath /\ isBlockEmpty(pre.doc, PreBlock)
             /\ (TagOf(pre.doc, PreBlock) # "P" \/ PreInContainer)
    /\ last.cmds = ConvertCmds
         => /\ last.handled
            /\ doc = convertBlockToParagraph(St(pre.doc, pre.sel), PreBlock).doc
            /\ TagOf(doc, sel.sc) = "P"

W_C10 == last.key = "Enter" /\ last.cmds = ConvertCmds /\ PreInContainer

\* C11: Scenario C: from blockquote(p1, p2(empty), p3) with the caret in p2,
\* one Enter yields the root sequence blockquote(p1), empty paragraph,
\* blockquote(p3), with p1 and p3 unchanged and in their order.
C11_ScenarioC ==
  (last.key = "Enter" /\ pre.doc = ScenarioC /\ PreCaret /\ PreBlock = <<1, 2>>)
    => /\ last.handled
       /\ doc = Editor(<<El("BLOCKQUOTE", <<P(<<"a">>)>>), EmptyP,
                         El("BLOCKQUOTE", <<P(<<"c">>)>>)>>)

W_C11 ==
  /\ last.key = "Enter" /\ pre.doc = ScenarioC /\ PreCaret
  /\ PreBlock = <<1, 2>> /\ last.handled /\ Len(doc.ch) = 3

\* C12: Scenario E: from ul(li("a"), li("")) with the caret in the second,
\* empty and last item, one Enter yields ul(li("a")) followed by an empty
\* root-level paragraph, and the caret is in the new paragraph.
C12_ScenarioE ==
  (last.key = "Enter" /\ pre.doc = ScenarioE /\ PreCaret /\ PreBlock = <<1, 2>>)
    => /\ last.handled
       /\ doc = Editor(<<El("UL", <<El("LI", <<T(<<"a">>)>>)>>), EmptyP>>)
       /\ sel.rc = 1 /\ sel.sc = sel.ec /\ sel.so = sel.eo
       /\ SubSeq(sel.sc, 1, 1) = <<2>>

W_C12 ==
  /\ last.key = "Enter" /\ pre.doc = ScenarioE /\ PreCaret
  /\ PreBlock = <<1, 2>> /\ last.handled /\ TagOf(doc, <<2>>) = "P"

\* number of elements of tree d with the given tag
CountTag(d, tag) == Cardinality({p \in ElemPaths(d, << >>) : TagOf(d, p) = tag})

\* rule 1 of Enter applies: the nearest block is empty and is no root paragraph
Rule1Pre ==
  /\ PreBlock # NoPath /\ isBlockEmpty(pre.doc, PreBlock)
  /\ (TagOf(pre.doc, PreBlock) # "P" \/ PreInContainer)

\* the nearest inline-style ancestor of the caret's text node, met before any
\* block element
PreInline ==
  IF ~PreCaret \/ ~IsText(pre.doc, pre.sel.sc) THEN NoPath
  ELSE LET a == UpTo(pre.doc, getParentElement(pre.doc, pre.sel.sc),
                     INLINE_TAGS \cup BLOCK_TAGS)
       IN IF a # NoPath /\ TagOf(pre.doc, a) \in INLINE_TAGS THEN a ELSE NoPath

\* rule 2 of Enter applies: the caret is at the end of the last text node of
\* its nearest inline-style ancestor
Rule2Pre ==
  /\ PreInline # NoPath
  /\ pre.sel.so = Len(NodeAt(pre.doc, pre.sel.sc).txt)
  /\ LET tps == TextPaths(NodeAt(pre.doc, PreInline), PreInline)
     IN tps[Len(tps)] = pre.sel.sc

\* the caret has all the text of its block before it
PreAtEnd ==
  /\ PreCaret /\ PreBlock # NoPath
  /\ LET b == NodeAt(pre.doc, PreBlock)
         rel == SubSeq(pre.sel.sc, Len(PreBlock) + 1, Len(pre.sel.sc))
     IN Len(TextContent(SplitL(b, rel, pre.sel.so))) = Len(TextContent(b))

\* rule 3 of Enter applies: end of a non-empty block inside a container
Rule3Pre ==
  /\ PreBlock # NoPath /\ PreInContainer
  /\ ~isBlockEmpty(pre.doc, PreBlock) /\ PreAtEnd

\* C13: Enter performs the action of exactly one rule, in priority order:
\* when rule 1 matches no insert is issued; when rule 1 does not match and
\* rules 2 and 3 both match, an empty paragraph is inserted and no same-tag
\* sibling block.
C13_OneRulePerEnter ==
  last.key = "Enter" =>
    /\ last.cmds \in {<< >>, ConvertCmds, <<"insertHTML">>}
    /\ Rule1Pre => last.cmds = ConvertCmds
    /\ (~Rule1Pre /\ Rule2Pre /\ Rule3Pre) =>
         /\ last.cmds = <<"insertHTML">>
         /\ CountTag(doc, "P") = CountTag(pre.doc, "P") + 1
         /\ TagOf(pre.doc, PreBlock) # "P" =>
              CountTag(doc, TagOf(pre.doc, PreBlock))
                = CountTag(pre.doc, TagOf(pre.doc, PreBlock))

W_C13 ==
  /\ last.key = "Enter" /\ ~Rule1Pre /\ Rule2Pre /\ Rule3Pre
  /\ TagOf(pre.doc, PreBlock) = "LI" /\ last.handled

\* the block the caret was in; a root-level element when no block encloses it
CurBlock ==
  IF PreBlock # NoPath THEN PreBlock
  ELSE IF pre.sel.rc = 0 \/ pre.sel.sc = << >> THEN NoPath
  ELSE <<pre.sel.sc[1]>>

\* C14: when rule 1 does not apply and the caret is at the end of the last
\* text node of its nearest inline-style ancestor, Enter issues exactly one
\* insert, is handled, and leaves the tree as it was with one empty paragraph
\* (placeholder only) immediately after the current block.
C14_CleanParagraphAfterBlock ==
  (last.key = "Enter" /\ ~Rule1Pre /\ Rule2Pre) =>
    /\ last.handled
    /\ last.cmds = <<"insertHTML">>
    /\ doc = ReplaceAt(pre.doc, CurBlock, <<NodeAt(pre.doc, CurBlock), EmptyP>>)

PreEmptyRootParagraph ==
  /\ last.key = "Backspace" /\ PreCaret
  /\ PreBlock # NoPath /\ Len(PreBlock) = 1
  /\ TagOf(pre.doc, PreBlock) = "P"
  /\ isBlockEmpty(pre.doc, PreBlock)

\* its previous and next element siblings are containers of different kinds
C16Pre ==
  /\ PreEmptyRootParagraph
  /\ isContainerElement(pre.doc, getPreviousSibling(pre.doc, PreBlock))
  /\ isContainerElement(pre.doc, getNextSibling(pre.doc, PreBlock))
  /\ TagOf(pre.doc, getPreviousSibling(pre.doc, PreBlock))
       # TagOf(pre.doc, getNextSibling(pre.doc, PreBlock))

\* C16: Backspace in an empty root-level paragraph between two containers of
\* different kinds issues no delete across them, and both containers stay in
\* the tree with their children unchanged.
C16_DifferentKindsUntouched ==
  C16Pre =>
    LET a == getPreviousSibling(pre.doc, PreBlock)
    IN /\ "delete" \notin SeqToSet(last.cmds)
       /\ NodeAt(doc, a) = NodeAt(pre.doc, a)
       /\ NodeAt(pre.doc, getNextSibling(pre.doc, PreBlock)) \in SeqToSet(doc.ch)

\* number of characters of block b of tree d that lie before selection start
CaretPosIn(d, b, s) ==
  Len(TextContent(SplitL(NodeAt(d, b), SubSeq(s.sc, Len(b) + 1, Len(s.sc)),
                         s.so)))

\* selection s of tree d is a collapsed caret inside the element at path b
CaretInside(d, b, s) ==
  /\ s.rc = 1 /\ s.sc = s.ec /\ s.so = s.eo
  /\ Len(s.sc) >= Len(b) /\ SubSeq(s.sc, 1, Len(b)) = b

\* the previous block of the empty root-level paragraph is the last block of
\* a container, and the paragraph is not between two same-kind containers
C17Pre ==
  /\ PreEmptyRootParagraph
  /\ getPreviousBlock(pre.doc, PreBlock) # NoPath
  /\ isContainerElement(pre.doc,
       getParentElement(pre.doc, getPreviousBlock(pre.doc, PreBlock)))
  /\ ~(/\ isContainerElement(pre.doc, getPreviousSibling(pre.doc, PreBlock))
       /\ isContainerElement(pre.doc, getNextSibling(pre.doc, PreBlock))
       /\ TagOf(pre.doc, getPreviousSibling(pre.doc, PreBlock))
            = TagOf(pre.doc, getNextSibling(pre.doc, PreBlock)))

\* C17: Backspace in an empty root-level paragraph whose previous block is the
\* last block of a container (and which is not between two same-kind
\* containers) is handled, deletes the paragraph and puts the caret at the end
\* of that block.
C17_EmptyParagraphDeleted ==
  C17Pre =>
    LET b == getPreviousBlock(pre.doc, PreBlock)
    IN /\ last.handled
       /\ doc = ReplaceAt(pre.doc, PreBlock, << >>)
       /\ CaretInside(doc, b, sel)
       /\ CaretPosIn(doc, b, sel) = Len(getTextContent(doc, b))

\* Backspace at the start of a non-empty root-level paragraph whose previous
\* block is at root level too
C18Pre ==
  /\ last.key = "Backspace" /\ PreAtStart
  /\ PreBlock # NoPath /\ Len(PreBlock) = 1
  /\ TagOf(pre.doc, PreBlock) = "P"
  /\ ~isBlockEmpty(pre.doc, PreBlock)
  /\ getPreviousBlock(pre.doc, PreBlock) # NoPath
  /\ Len(getPreviousBlock(pre.doc, PreBlock)) = 1

\* C18: after a same-level merge the caret is inside the previous block at
\* the offset equal to the length of that block's text before the merge, and
\* the current block is gone.
C18_CaretAtMergeBoundary ==
  C18Pre =>
    LET t == getPreviousBlock(pre.doc, PreBlock)
    IN /\ Len(doc.ch) < Len(pre.doc.ch)
       /\ t[1] <= Len(doc.ch)
       /\ TagOf(doc, t) = TagOf(pre.doc, t)
       /\ CaretInside(doc, t, sel)
       /\ CaretPosIn(doc, t, sel) = Len(getTextContent(pre.doc, t))

\* C19: every block node (p, h1-h6, li) without text holds the placeholder
\* line break.
C19_EmptyBlocksHoldPlaceholder ==
  \A p \in ElemPaths(doc, << >>) :
    (TagOf(doc, p) \in BLOCK_TAGS /\ getTextContent(doc, p) = << >>)
      => Br \in SeqToSet(NodeAt(doc, p).ch)

\* Enter has inserted a block and the caret is in it
W_C19 ==
  /\ last.key = "Enter" /\ last.cmds = <<"insertHTML">> /\ last.handled
  /\ sel.rc = 1 /\ isBlockElement(doc, sel.sc)
  /\ getTextContent(doc, sel.sc) = << >>

\* C20: calling mergeAdjacentContainers twice in a row with the same
\* reference leaves the same tree as calling it once.
C20_CoalesceIdempotent == last.key = "coalesce" => doc = pre.doc

\* the first of the two calls has merged two containers
W_C20 == last.key = "coalesce" /\ last.splices > 0 /\ doc = pre.doc

\* C21: when no selection range exists, each of the three key handlers
\* returns not handled and issues no structural edit command.
C21_NoSelectionNotHandled ==
  (last.key \in {"Backspace", "Enter", "Tab"} /\ pre.sel.rc = 0)
    => (~last.handled /\ last.cmds = << >>)

\* C22: for every tree and selection, handleBackspace, handleEnter and
\* handleTab return a boolean and never raise an exception.
C22_NeverThrows == ~last.threw

\* the blocks and containers of a tree with their nesting, nothing else
RECURSIVE Skeleton(_)
RECURSIVE SkeletonSeq(_)
Skeleton(n) ==
  IF n.tag \in BLOCK_TAGS \cup CONTAINER_TAGS \cup {"DIV"}
    THEN <<[tag |-> n.tag, ch |-> SkeletonSeq(n.ch)]>>
    ELSE SkeletonSeq(n.ch)

SkeletonSeq(q) ==
  IF q = << >> THEN << >> ELSE Skeleton(Head(q)) \o SkeletonSeq(Tail(q))

\* the text of tree d that lies before the start of selection s
TextBeforeSel(d, s) == TextContent(SplitL(d, s.sc, s.so))

\* C25: with a caret, handleTab inserts exactly four non-breaking spaces at
\* the caret through one insert command and returns handled; the blocks and
\* containers of the tree keep their number, kind and nesting.
C25_TabInsertsIndent ==
  (last.key = "Tab" /\ PreCaret) =>
    LET before == TextBeforeSel(pre.doc, pre.sel)
        all == TextContent(pre.doc)
    IN /\ last.handled
       /\ last.cmds = <<"insertHTML">>
       /\ TextContent(doc) = before \o <<"nbsp", "nbsp", "nbsp", "nbsp">>
                             \o SubSeq(all, Len(before) + 1, Len(all))
       /\ Skeleton(doc) = Skeleton(pre.doc)

W_C25 ==
  /\ last.key = "Tab" /\ PreCaret /\ last.handled
  /\ IsText(pre.doc, pre.sel.sc) /\ pre.sel.so > 0
  /\ PreInContainer

\* the selection points of tree d: every offset of every text node and the
\* start of every element
Points(d) ==
  {<<x.sc, x.so>> : x \in {y \in Selections(d) : y.rc = 1 /\ y.sc = y.ec
                                                  /\ y.so = y.eo}}

\* the selection point (c, o) lies in a block and no text of that block
\* precedes it
StartsBlock(d, c, o) ==
  LET b == UpTo(d, StartElement(d, c), BLOCK_TAGS)
  IN /\ b # NoPath
     /\ TextContent(SplitL(NodeAt(d, b), SubSeq(c, Len(b) + 1, Len(c)), o))
          = << >>

\* C30: isAtBlockStart(container, offset) reports atStart = true if and only
\* if the selection point lies inside a block and the text of that block
\* before the point is empty; without an enclosing block it reports false.
C30_AtBlockStartExact ==
  \A pt \in Points(doc) :
    isAtBlockStart(doc, pt[1], pt[2]).atStart <=> StartsBlock(doc, pt[1], pt[2])

\* C23: in the keydown handling, preventDefault is called if and only if the
\* key is Backspace, Enter or Tab and the block editor reports handled; for
\* any other key no handler runs, preventDefault is not called and no
\* read-back is scheduled.
C23_PreventIffHandled ==
  comp.op.name = "keydown" =>
    /\ (comp.op.prevented > 0)
         <=> (last.key \in {"Backspace", "Enter", "Tab"} /\ last.handled)
    /\ last.key \notin {"Backspace", "Enter", "Tab"} =>
         /\ comp.op.prevented = 0 /\ comp.op.scheduled = 0
         /\ last.cmds = << >> /\ doc = pre.doc /\ sel = pre.sel

W_C23 ==
  /\ comp.op.name = "keydown" /\ last.key = "Backspace"
  /\ ~last.handled /\ comp.op.prevented = 0

\* C24: a handled key event schedules exactly one read-back, a key event that
\* is not handled schedules none; the read-back runs as the next step after
\* the key event, and the markdown it emits is the serialization of the tree
\* as it stands then.
C24_OneReadBackAfterCommands ==
  /\ comp.pending <= 1
  /\ comp.op.name = "keydown" =>
       /\ comp.op.scheduled = (IF last.handled THEN 1 ELSE 0)
       /\ comp.pending = comp.op.scheduled
  /\ comp.op.name = "readback" =>
       /\ comp.op.after = "keydown" /\ last.handled /\ comp.pending = 0
       /\ comp.internalHtml = doc
       /\ comp.td => (comp.op.emits = 1 /\ comp.emitted = turndown(doc))

\* a read-back has emitted the tree that Enter or Backspace built
W_C24 ==
  /\ comp.op.name = "readback" /\ comp.op.emits = 1
  /\ last.key \in {"Backspace", "Enter"} /\ doc # pre.doc
  /\ comp.emitted = turndown(doc)

\* C26: when the parent sets the value prop to the markdown that the
\* component has just emitted, innerHTML is not assigned and nothing is
\* emitted: tree, caret and selection stay as they were.
C26_ComparisonGate ==
  (comp.op.name = "setValue" /\ comp.op.echo) =>
    /\ comp.op.assigns = 0 /\ comp.op.emits = 0 /\ ~comp.op.error
    /\ doc = pre.doc /\ sel = pre.sel

\* the echo arrives while the tree differs from the rendering of the markdown
W_C26 ==
  /\ comp.op.name = "setValue" /\ comp.op.echo /\ comp.op.assigns = 0
  /\ render(comp.value) # doc /\ sel.rc = 1

\* C27: a change of the value prop (or the mount) assigns innerHTML at most
\* once and emits nothing; a user input or a read-back assigns nothing; one
\* event starts at most one further callback.
C27_PathSeparation ==
  /\ comp.op.name \in {"setValue", "mount"} =>
       (comp.op.assigns <= 1 /\ comp.op.emits = 0 /\ comp.pending = 0)
  /\ comp.op.name \in {"input", "readback"} =>
       (comp.op.assigns = 0 /\ comp.op.emits <= 1 /\ comp.pending = 0)

W_C27 ==
  /\ comp.op.name = "readback" /\ comp.op.emits = 1 /\ comp.assigned = 1
  /\ doc # render(comp.emitted)

\* C28: when the parser or the serializer is unavailable the mount ends in an
\* error without rendering; nothing is ever emitted without the serializer or
\* rendered without the parser.
C28_FailFast ==
  /\ (comp.op.name = "mount" /\ ~(comp.md /\ comp.td)) =>
       (comp.op.error /\ comp.op.assigns = 0 /\ doc = NoHtml)
  /\ comp.phase = "created" => (comp.emitted = NoMarkdown /\ comp.assigned = 0)
  /\ comp.emitted # NoMarkdown => comp.td
  /\ comp.assigned > 0 => comp.md

W_C28 ==
  /\ comp.op.name = "mount" /\ comp.op.error /\ ~comp.md
  /\ comp.value # turndown(NoHtml)

\* ================================== properties of the lower layers
\* the boundary points of tree d: the points of Points and, for every element,
\* the point behind its last child
BoundaryPoints(d) ==
  Points(d) \cup {<<e, Len(NodeAt(d, e).ch)>> :
                    e \in {x \in ElemPaths(d, << >>) : TagOf(d, x) # "BR"}}

\* the point (c, o) lies inside the element at path b
PointIn(b, c) == Len(c) >= Len(b) /\ SubSeq(c, 1, Len(b)) = b

\* the text of the element at path b that precedes the point (c, o)
TextUpTo(d, b, c, o) ==
  TextContent(SplitL(NodeAt(d, b), SubSeq(c, Len(b) + 1, Len(c)), o))

BlockPaths(d) == {b \in ElemPaths(d, << >>) : TagOf(d, b) \in BLOCK_TAGS}

\* C31: for every collapsed caret position inside a block, isAtBlockEnd(block)
\* is true if and only if the length of the block's text up to the caret
\* equals the total length of the block's text.
C31_AtBlockEndExact ==
  \A b \in BlockPaths(doc) :
    \A pt \in {q \in BoundaryPoints(doc) : PointIn(b, q[1])} :
      isAtBlockEnd(doc, Caret(pt[1], pt[2]), b)
        <=> (Len(TextUpTo(doc, b, pt[1], pt[2])) = Len(getTextContent(doc, b)))

\* the child indices of the element at path p that hold blocks
BlockIdx(d, p) == {i \in ElemIdx(d, p) : NodeAt(d, p).ch[i].tag \in BLOCK_TAGS}

\* the element siblings of b that yield a block: blocks, and containers with
\* a block child
YieldIdx(d, b) ==
  {i \in ElemIdx(d, getParentElement(d, b)) :
     LET sib == Append(getParentElement(d, b), i)
     IN isBlockElement(d, sib)
        \/ (isContainerElement(d, sib) /\ BlockIdx(d, sib) # {})}

\* the block of the sibling at index i: the sibling itself, or the last
\* (the first) block child of the container
BlockOfSibling(d, b, i, takeLast) ==
  LET sib == Append(getParentElement(d, b), i)
  IN IF isBlockElement(d, sib) THEN sib
     ELSE Append(sib, IF takeLast THEN MaxOf(BlockIdx(d, sib))
                      ELSE MinOf(BlockIdx(d, sib)))

PreviousBlockOf(d, b) ==
  LET S == {i \in YieldIdx(d, b) : i < Last(b)}
  IN IF S = {} THEN NoPath ELSE BlockOfSibling(d, b, MaxOf(S), TRUE)

NextBlockOf(d, b) ==
  LET S == {i \in YieldIdx(d, b) : i > Last(b)}
  IN IF S = {} THEN NoPath ELSE BlockOfSibling(d, b, MinOf(S), FALSE)

\* C32: getPreviousBlock(b) is the nearest preceding element sibling that is a
\* block or, for a nearer container, the last block child of that container;
\* other siblings are skipped and null is returned when there is no such
\* block; getNextBlock(b) mirrors it with the first block child; the result
\* is a block different from b, or null.
C32_ContainerTransparentSearch ==
  \A b \in BlockPaths(doc) :
    /\ getPreviousBlock(doc, b) = PreviousBlockOf(doc, b)
    /\ getNextBlock(doc, b) = NextBlockOf(doc, b)
    /\ \A r \in {getPreviousBlock(doc, b), getNextBlock(doc, b)} :
         r = NoPath \/ (isBlockElement(doc, r) /\ r # b)

\* declarations that only present a block
BlockPresentational ==
  {"font-size", "margin", "padding", "border", "color: rgb(106, 115, 125)",
   "line-height"}

\* bold, italic, underline and strikethrough declarations
InlineDeclarations ==
  {"font-weight: bold", "font-weight: 600", "font-weight: 700",
   "font-style: italic", "text-decoration: underline",
   "text-decoration: line-through"}

ExclusivelyBlock(style) ==
  style # << >> /\ \A i \in 1..Len(style) : style[i] \in BlockPresentational

CarriesInline(style) == \E i \in 1..Len(style) : style[i] \in InlineDeclarations

\* the styles of the SPAN wrappers in a sequence of nodes, in document order
RECURSIVE SpanStyles(_)
SpanStyles(q) ==
  IF q = << >> THEN << >>
  ELSE (IF Head(q).tag = "SPAN" THEN <<Head(q).txt>> ELSE << >>)
       \o SpanStyles(Head(q).ch) \o SpanStyles(Tail(q))

C34_OneRolePerElement ==
  \A e \in ElemPaths(doc, << >>) :
    LET t == TagOf(doc, e)
        blk == isBlockElement(doc, e)
        con == isContainerElement(doc, e)
        inl == isInlineStyleElement(doc, e)
    IN /\ blk <=> t \in {"P", "H1", "H2", "H3", "H4", "H5", "H6", "LI"}
       /\ con <=> t \in {"BLOCKQUOTE", "OL", "UL", "PRE"}
       /\ inl <=> \/ t \in {"STRONG", "EM", "B", "I", "CODE", "U", "S"}
                  \/ (t = "SPAN" /\ CarriesInline(NodeAt(doc, e).txt))
       /\ ~(blk /\ con) /\ ~(blk /\ inl) /\ ~(con /\ inl)

\* after a handled key the tree holds a block, a container, an inline-style
\* SPAN and an element without any role
W_C34 ==
  /\ last.handled
  /\ \E e \in ElemPaths(doc, << >>) : isContainerElement(doc, e)
  /\ \E e \in ElemPaths(doc, << >>) :
       TagOf(doc, e) = "SPAN" /\ isInlineStyleElement(doc, e)
  /\ \E e \in ElemPaths(doc, << >>) :
       /\ ~isBlockElement(doc, e) /\ ~isContainerElement(doc, e)
       /\ ~isInlineStyleElement(doc, e) /\ TagOf(doc, e) # "BR"

\* C35: for every n from 0 to the length of the editor's text,
\* setAbsoluteCaretPosition(n) returns true and getAbsoluteCaretPosition()
\* then returns n; for a greater n it returns false and leaves the selection
\* as it was.
C35_CaretOffsetRoundTrip ==
  \A n \in 0..(Len(TextContent(doc)) + 1) :
    LET r == setAbsoluteCaretPosition(St(doc, sel), n)
    IN IF n <= Len(TextContent(doc))
         THEN r.ok /\ getAbsoluteCaretPosition(St(doc, r.sel)) = n
         ELSE ~r.ok /\ r.sel = sel

\* C36: whenever handleBackspace or handleEnter returns not handled, the
\* tree and the selection are as they were before the call, and no structural
\* edit command has been issued.
C36_NotHandledLeavesNoTrace ==
  (last.key \in {"Backspace", "Enter"} /\ ~last.handled /\ ~last.threw)
    => /\ doc = pre.doc /\ sel = pre.sel
       /\ last.cmds = << >> /\ last.splices = 0

\* Backspace at the start of the first root-level paragraph went through all
\* tests down to the search for a previous block
W_C36 ==
  /\ last.key = "Backspace" /\ ~last.handled /\ last.rule = "noPrevious"
  /\ PreAtStart /\ ~isBlockEmpty(pre.doc, PreBlock)

\* p is the path of a node of tree n
RECURSIVE ValidPath(_, _)
ValidPath(n, p) ==
  \/ p = << >>
  \/ /\ Head(p) \in 1..Len(n.ch)
     /\ ValidPath(n.ch[Head(p)], Tail(p))

\* the last Backspace called mergeBlocks(previous block, block of the caret)
C37Pre ==
  /\ last.key = "Backspace" /\ last.rule \in {"sameMerge", "crossMerge"}
  /\ ~isBlockEmpty(pre.doc, PreBlock)

\* C37: in mergeBlocks(target, source) the source's text is inserted inside
\* the target, also when the target holds only the placeholder line break:
\* afterwards the target's text is its old text followed by the source's.
C37_SourceTextEntersTarget ==
  C37Pre =>
    LET t == getPreviousBlock(pre.doc, PreBlock)
    IN /\ ValidPath(doc, t)
       /\ getTextContent(doc, t)
            = getTextContent(pre.doc, t) \o getTextContent(pre.doc, PreBlock)

\* the points of tree d that lie inside a block
BlockPoints(d) ==
  {pt \in Points(d) : UpTo(d, StartElement(d, pt[1]), BLOCK_TAGS) # NoPath}

\* the text of the enclosing block that precedes the point
TextBeforePoint(d, pt) ==
  TextUpTo(d, UpTo(d, StartElement(d, pt[1]), BLOCK_TAGS), pt[1], pt[2])

\* C38: the verdict of isAtBlockStart depends only on the characters of the
\* block that precede the caret: two caret positions with the same preceding
\* text get the same verdict, however the text is divided among text nodes
\* and whichever node addresses the caret.
C38_VerdictByTextOnly ==
  \A p1, p2 \in BlockPoints(doc) :
    TextBeforePoint(doc, p1) = TextBeforePoint(doc, p2)
      => isAtBlockStart(doc, p1[1], p1[2]).atStart
           = isAtBlockStart(doc, p2[1], p2[2]).atStart

\* C39: handlePaste prevents the native paste, inserts the rendered
\* clipboard content through one insert command of the block editor and then
\* schedules exactly one read-back; it never ends in an error for lack of that
\* operation on the block editor.
C39_PasteInsertsAndReadsBack ==
  (comp.op.name = "paste" /\ comp.md /\ comp.td) =>
    /\ comp.op.prevented = 1 /\ ~comp.op.error
    /\ last.cmds = <<"insertHTML">>
    /\ comp.op.scheduled = 1 /\ comp.pending = 1

\* C40: in the timer-guarded editor the isUserEditing flag is never stuck:
\* once raised by a key event (or any other event), it falls again when the
\* user stays idle, so that a later external change of the markdown is
\* rendered instead of being ignored.
C40_FlagNeverStuck == app.isUserEditing ~> ~app.isUserEditing

====
